---- MODULE Spec2Model ----
(***************************************************************************)
(* Model of the discovery scan engine of nucleus-cloud-ops:                *)
(*   src/lambda/discovery/src/inventory_runner.py  (scan, fan-out,         *)
(*       normalizer, account loop scan_all_active_accounts)                *)
(*   src/lambda/discovery/src/data_processor.py    (persist, reconcile)    *)
(*   src/lambda/discovery/src/main.py              (account loop main)     *)
(*   src/lambda/discovery/local_runner.py          (account loop of the    *)
(*       command-line runner)                                              *)
(*                                                                         *)
(* Strings are sequences of tokens, so that an f-string is a               *)
(* concatenation and '' is << >>.                                          *)
(*                                                                         *)
(* main.py calls process_and_store_resources with a scan_id keyword and    *)
(* imports save_sync_status; the data_processor.py revision under src/     *)
(* has neither.  The persist step of main is modelled by the body of       *)
(* process_and_store_resources as it stands in data_processor.py, and      *)
(* save_sync_status (a status write to the app table) is not modelled.     *)
(*                                                                         *)
(* The specifications share the variables:                                 *)
(*   SpecStore     persist and reconcile called on their own;              *)
(*   SpecRun       the account loop of main / scan_all_active_accounts;    *)
(*   SpecFlow      SpecRun and the account loop of local_runner;           *)
(*   SpecScan      the fan-out: the service tasks of one process_region,   *)
(*                 and the region tasks of one run_inventory_scan;         *)
(*   SpecScanFair  SpecScan with every started task eventually finishing;  *)
(*   SpecRetry     api_call_with_retry, one call of the retrying invoker;  *)
(*   SpecBatch     one process_and_store_resources call, with the calls of *)
(*                 batch_write_item it makes recorded in order;            *)
(*   SpecEndToEnd  one account: a scan of two regions, then persist;       *)
(*   SpecNormalize normalize_resources called on its own;                  *)
(*   SpecService   get_service_data, one call of the service scanner;      *)
(*   SpecDeep      the deep scans of Lambda, S3 and DynamoDB, one call     *)
(*                 per region;                                             *)
(*   SpecResolve   run_inventory_scan from the resolution of the region    *)
(*                 list to its return.                                     *)
(***************************************************************************)
EXTENDS Integers, Sequences, FiniteSets, TLC

\* ------------------------------------------------------------------ bounds

\* longest region list of an account configuration
MaxRegions == 2
\* longest descriptor list of a scan configuration
MaxServices == 2
\* longest resource list handed to persist by the store driver
MaxResources == 2
\* number of persist / reconcile calls of the store driver
MaxCalls == 2
\* longest account list of a run
MaxAccounts == 2
\* longest resource list of the persist call studied on its own
MaxItems == 26
\* longest list payload handed to the normalizer called on its own
MaxPayload == 2
\* longest primary listing of a deep scan
MaxListing == 2
\* most pages a paginator yields
MaxPages == 2
\* highest max_retries get_service_data is called with
MaxCallRetries == 2
\* largest max_retries of the retrying invoker
MaxRetries == 3
\* largest retry_delay (the base of the backoff) of the retrying invoker
MaxDelay == 3

\* ----------------------------------------------------------------- strings

Str(x) == <<x>>

Min(a, b) == IF a < b THEN a ELSE b

RECURSIVE Pow(_, _)
\* b ** e
Pow(b, e) == IF e = 0 THEN 1 ELSE b * Pow(b, e - 1)

RECURSIVE RemoveAll(_, _)
\* str.replace(pat, ''): leftmost, non-overlapping occurrences are removed
RemoveAll(s, pat) ==
  IF Len(s) < Len(pat) THEN s
  ELSE IF SubSeq(s, 1, Len(pat)) = pat
       THEN RemoveAll(SubSeq(s, Len(pat) + 1, Len(s)), pat)
       ELSE <<Head(s)>> \o RemoveAll(Tail(s), pat)

RECURSIVE SeqToSet(_)
SeqToSet(s) == IF s = <<>> THEN {} ELSE {Head(s)} \cup SeqToSet(Tail(s))

RECURSIVE Flatten(_)
\* concatenation of a sequence of sequences
Flatten(ss) == IF ss = <<>> THEN <<>> ELSE Head(ss) \o Flatten(Tail(ss))

\* all sequences over S of length at most n
SeqsUpTo(S, n) == UNION {[1..k -> S] : k \in 0..n}

\* all orders in which the elements of the finite set S can be enumerated
Perms(S) ==
  {p \in [1..Cardinality(S) -> S] : \A i, j \in 1..Cardinality(S) : p[i] = p[j] => i = j}

\* ------------------------------------------------- resource type, normalizer

\* f"{service}_{function}".replace('describe_','').replace('list_','').replace('get_','')
ResourceType(service, function) ==
  RemoveAll(RemoveAll(RemoveAll(service \o <<"_">> \o function,
                                <<"describe", "_">>),
                      <<"list", "_">>),
            <<"get", "_">>)

id_keys ==
  << "InstanceId", "DBInstanceIdentifier", "DBClusterIdentifier", "ClusterIdentifier",
     "FunctionName", "BucketName", "VolumeId", "VpcId", "SubnetId", "GroupId",
     "KeyId", "AutoScalingGroupName", "LoadBalancerArn", "TopicArn", "QueueUrl",
     "FileSystemId", "NatGatewayId", "DistributionId", "TableName", "StreamName",
     "CacheClusterId", "ReplicationGroupId", "ClusterArn", "ServiceArn", "TaskArn" >>

arn_keys ==
  << "Arn", "ARN", "FunctionArn", "DBInstanceArn", "DBClusterArn",
     "LoadBalancerArn", "TopicArn", "QueueArn", "FileSystemArn",
     "KeyArn", "ClusterArn", "ServiceArn", "TaskArn", "TableArn" >>

name_keys ==
  << "Name", "DBInstanceIdentifier", "DBClusterIdentifier", "FunctionName",
     "BucketName", "AutoScalingGroupName", "LoadBalancerName", "FileSystemId",
     "TableName", "TopicName", "QueueName" >>

RECURSIVE FirstPresent_last(_, _, _)
\* the key loop without its break: the last key of the list that is present
FirstPresent_last(resource, keys, default) ==
  IF keys = <<>> THEN default
  ELSE IF keys[Len(keys)] \in DOMAIN resource THEN resource[keys[Len(keys)]]
       ELSE FirstPresent_last(resource, SubSeq(keys, 1, Len(keys) - 1), default)

RECURSIVE FirstPresent(_, _, _)
\* for key in keys: if key in resource: value = resource[key]; break
FirstPresent(resource, keys, default) ==
  IF keys = <<>> THEN default
  ELSE IF Head(keys) \in DOMAIN resource THEN resource[Head(keys)]
       ELSE FirstPresent(resource, Tail(keys), default)

\* dict.get(key, default)
Get(d, key, default) == IF key \in DOMAIN d THEN d[key] ELSE default

RECURSIVE NameFromTags(_)
\* first tag of the list whose Key is 'Name'
NameFromTags(tags) ==
  IF tags = <<>> THEN <<>>
  ELSE IF Get(Head(tags), "Key", <<>>) = Str("Name") THEN Get(Head(tags), "Value", <<>>)
       ELSE NameFromTags(Tail(tags))

RECURSIVE TagsToDict(_)
\* {tag.get('Key',''): tag.get('Value','') for tag in tags}: a later tag wins
TagsToDict(tags) ==
  IF tags = <<>> THEN <<>>
  ELSE LET t == tags[Len(tags)]
       IN  (Get(t, "Key", <<>>) :> Get(t, "Value", <<>>))
             @@ TagsToDict(SubSeq(tags, 1, Len(tags) - 1))

\* A raw item is a dict: a function from key names to strings; its tag
\* collection, when it has one, is a list of {Key, Value} dicts under 'Tags',
\* and its state a string under 'State'.
extract_resource_identifiers(resource, service) ==
  LET resourceId == FirstPresent(resource, id_keys, <<>>)
      resourceArn == FirstPresent(resource, arn_keys, <<>>)
      name0 == FirstPresent(resource, name_keys, <<>>)
      taglist == Get(resource, "Tags", Get(resource, "TagList", <<>>))
      name1 == IF name0 = <<>> THEN NameFromTags(taglist) ELSE name0
      state == Get(resource, "State", Get(resource, "DBInstanceStatus",
                 Get(resource, "Status", Get(resource, "InstanceStatus", Str("unknown")))))
      tags == TagsToDict(Get(resource, "Tags",
                 Get(resource, "TagList", Get(resource, "tags", <<>>))))
  IN  [ resourceId |-> resourceId,
        resourceArn |-> resourceArn,
        name |-> IF name1 = <<>> THEN resourceId ELSE name1,
        state |-> state,
        tags |-> tags ]

\* Payloads and their items carry their Python type: a list of items, a dict,
\* a str, or a value of another type (None, a number, a bool, a nested list),
\* of which only the truth value matters.
ListOf(items) == [kind |-> "list", value |-> items]
DictItem(d) == [kind |-> "dict", value |-> d]
StrItem(s) == [kind |-> "str", value |-> s]
OtherItem(truthy) == [kind |-> "other", value |-> truthy]

\* a list of dict items
Dicts(items) == ListOf([i \in 1..Len(items) |-> DictItem(items[i])])

\* not x
Falsy(x) == IF x.kind = "other" THEN ~x.value ELSE x.value = <<>>

\* sep in item
Contains(item, sep) == \E i \in 1..Len(item) : item[i] = sep

RECURSIVE AfterLast(_, _)
\* item.split(sep)[-1]
AfterLast(item, sep) ==
  IF item = <<>> THEN <<>>
  ELSE IF item[Len(item)] = sep \/ (sep = ":" /\ item[Len(item)] = "arn:") THEN <<>>
       ELSE Append(AfterLast(SubSeq(item, 1, Len(item) - 1), sep), item[Len(item)])

\* the resource of a str item (an ARN or an id)
NormalizeString(item, service, function, region) ==
  LET id == IF Contains(item, "/") THEN AfterLast(item, "/") ELSE AfterLast(item, ":")
  IN  [ resourceType |-> ResourceType(service, function),
        region |-> region,
        service |-> service,
        resourceId |-> id,
        resourceArn |-> IF item # <<>> /\ item[1] = "arn:" THEN item ELSE <<>>,
        name |-> id,
        state |-> Str("unknown"),
        tags |-> <<>>,
        rawData |-> item ]

\* the resource of a dict item
NormalizeItem(item, service, function, region) ==
  [ resourceType |-> ResourceType(service, function),
    region |-> region,
    service |-> service,
    rawData |-> item ] @@ extract_resource_identifiers(item, service)

RECURSIVE NormalizeItems(_, _, _, _)
\* for item in items: a str and a dict give a resource, anything else: continue
NormalizeItems(items, service, function, region) ==
  IF items = <<>> THEN <<>>
  ELSE LET item == Head(items)
       IN  (IF item.kind = "str"
            THEN <<NormalizeString(item.value, service, function, region)>>
            ELSE IF item.kind = "dict"
                 THEN <<NormalizeItem(item.value, service, function, region)>>
                 ELSE <<>>)
           \o NormalizeItems(Tail(items), service, function, region)

normalize_resources(raw_data, service, function, region) ==
  IF Falsy(raw_data) THEN <<>>
  ELSE NormalizeItems(IF raw_data.kind = "list" THEN raw_data.value ELSE <<raw_data>>,
                      service, function, region)

\* ------------------------------------------------------------- ARN, records

\* an ARN step whose pseudo-ARN leaves the region out
generate_resource_arn_regionless(resource, account_id) ==
  IF resource.resourceArn # <<>> THEN resource.resourceArn
  ELSE <<"arn:aws:">> \o resource.service \o <<":">> \o account_id \o <<":">>
         \o resource.resourceType \o <<"/">> \o resource.resourceId

\* an ARN step that builds the pseudo-ARN for every resource
generate_resource_arn_always(resource, account_id) ==
  <<"arn:aws:">> \o resource.service \o <<":">> \o resource.region \o <<":">>
    \o account_id \o <<":">> \o resource.resourceType \o <<"/">> \o resource.resourceId

\* an ARN step that only passes the normalizer's ARN on
generate_resource_arn_given(resource, account_id) == resource.resourceArn

\* if resource.get('resourceArn'): return it; else the pseudo-ARN
generate_resource_arn(resource, account_id) ==
  IF resource.resourceArn # <<>> THEN resource.resourceArn
  ELSE <<"arn:aws:">> \o resource.service \o <<":">> \o resource.region \o <<":">>
         \o account_id \o <<":">> \o resource.resourceType \o <<"/">>
         \o resource.resourceId

\* a set of the ARNs the normalizer found, with none synthesized
get_discovered_arns_given(resources, account_id) ==
  { resources[i].resourceArn : i \in 1..Len(resources) } \ {<<>>}

\* set(resource.get('resourceArn') or generate_resource_arn(resource, account_id))
get_discovered_arns(resources, account_id) ==
  { generate_resource_arn(resources[i], account_id) : i \in 1..Len(resources) } \ {<<>>}

PK(account_id) == <<"ACCOUNT#">> \o account_id
SK(resource_type, resource_arn) == <<"INVENTORY#">> \o resource_type \o <<"#">> \o resource_arn

\* --------------------------------------------------------------- the state

VARIABLES
  store,        \* inventory table: (pk, sk) -> item
  clock,        \* datetime.now()
  calls,        \* calls made by the store driver
  pPc,          \* process_and_store_resources: "off", "batch", "retry", "ret"
  pAcct,        \* its account_id
  pResources,   \* its resources
  pItems,       \* its items_to_write, deduplicated
  pLog,         \* its calls of batch_write_item, in order, with their outcome
                \* (pResources and pLog are history, kept when entry = "persist")
  pI,           \* first position of the current batch (1-based)
  pUnproc,      \* unprocessed requests of the last response
  pRetry,       \* retry_count
  pWritten,     \* total_written
  rCall,        \* the last mark_missing_resources call and its outcome
  entry,        \* the account loop that runs: "main" or "scan_all_active_accounts"
  accounts,     \* the account list of the run
  mIdx,         \* position of the loop in the account list
  mPc,          \* the loop: "loop", "scanned", "persisting", "done"
  scan_result,  \* what run_inventory_scan returned for the current account
  total_resources,
  successful_accounts,
  failed_accounts,
  attempts,     \* per list position: calls of run_inventory_scan made
  counted,      \* per list position: "none", "success" or "failed"
  scanEnv,      \* the current account's scan: whether the credentials failed, and
                \* the (region, descriptor) pairs that yielded no data
  preStore,     \* the table when the current account's scan began
  level,        \* the fan-out under study: "region" (process_region) or
                \* "account" (run_inventory_scan), "off" otherwise
  rRegion,      \* process_region: its region
  rServices,    \* its services
  concurrent_services,
  svc,          \* per service task: "queued", "running", "done", "collecting", "collected"
  svcFut,       \* per service task: its future, once done
  region_results,
  rMut,         \* mutations of region_results in progress
  rPc,          \* "collect" or "returned"
  role_arn,     \* run_inventory_scan: its role_arn
  sRegions,     \* its regions
  sServices,    \* its services
  concurrent_regions,
  sPc,          \* "assume", "verify", "collect", "returned"
  sAuth,        \* "pending", "ok", "assume_fails", "verify_fails"
  reg,          \* per region task: "unsubmitted", "queued", "running", "done",
                \* "aggregating", "aggregated"
  regFut,       \* per region task: its future, once done
  agg,          \* all_results and raw_results
  sMut,         \* mutations of all_results / raw_results in progress
  svcStarted,   \* service tasks submitted by the region tasks
  result,       \* the returned dict
  max_retries,  \* api_call_with_retry: its max_retries
  retry_delay,  \* its retry_delay
  attempt,      \* the loop variable of api_call
  thrown,       \* what each call of the client function ended with, in order
  slept,        \* the arguments of time.sleep, in order
  apiPc,        \* "loop", "returned", "raised"
  apiResult,    \* what api_call returned, or the exception it raised
  nPc,          \* normalize_resources called on its own: "off", "call", "returned"
  nArgs,        \* its arguments
  nResources,   \* the list it returned
  gPc,          \* get_service_data, generic path: "off", "paginate", "single", "returned"
  gArgs,        \* its service_config, and what the client will answer
  gPage,        \* pages the loop over paginator.paginate() has consumed
  all_items,    \* its all_items
  gResult,      \* what it returned
  dArgs,        \* the deep scans of one account: the variant and its primary listing
  dScans,       \* per region scanned: how the secondary calls ended, and the result
  sConfig,      \* run_inventory_scan: the configured regions, and what
                \* describe_regions will answer
  exit_status   \* the status main exited with, <<>> while it runs

storeVars == <<store, clock, calls, pPc, pAcct, pResources, pItems, pLog, pI, pUnproc, pRetry,
               pWritten, rCall>>

runVars == <<entry, accounts, mIdx, mPc, scan_result, total_resources,
             successful_accounts, failed_accounts, attempts, counted, scanEnv, preStore>>

regionVars == <<rRegion, rServices, concurrent_services, svc, svcFut, region_results,
                rMut, rPc>>

scanVars == <<role_arn, sRegions, sServices, concurrent_regions, sPc, sAuth, reg, 
              regFut, agg, sMut, svcStarted, result>>

fanoutVars == <<level, regionVars, scanVars>>

retryVars == <<max_retries, retry_delay, attempt, thrown, slept, apiPc, apiResult>>

normVars == <<nPc, nArgs, nResources>>

serviceVars == <<gPc, gArgs, gPage, all_items, gResult>>

deepVars == <<dArgs, dScans>>

otherVars == <<serviceVars, deepVars, sConfig, exit_status>>

vars == <<storeVars, runVars, fanoutVars, retryVars, normVars, otherVars>>

\* ----------------------------------------------------------------- persist

batch_size == 25
max_batch_retries == 5

\* resources without a valid id are skipped
ValidId(resource) == resource.resourceId # <<>> /\ resource.resourceId # Str("unknown")

\* an item that carries no time of discovery
Item_keep_time(resource, account_id, timestamp) ==
  LET resource_arn == generate_resource_arn(resource, account_id)
  IN  [ pk |-> PK(account_id),
        sk |-> SK(resource.resourceType, resource_arn),
        resourceId |-> resource.resourceId,
        resourceArn |-> resource_arn,
        resourceType |-> resource.resourceType,
        name |-> resource.name,
        region |-> resource.region,
        state |-> resource.state,
        accountId |-> account_id,
        lastDiscoveredAt |-> 0,
        discoveryStatus |-> "active",
        tags |-> resource.tags,
        service |-> resource.service ]

\* the DynamoDB item of one resource (the gsi* index attributes, which repeat
\* the fields below, are left out)
Item(resource, account_id, timestamp) ==
  LET resource_arn == generate_resource_arn(resource, account_id)
  IN  [ pk |-> PK(account_id),
        sk |-> SK(resource.resourceType, resource_arn),
        resourceId |-> resource.resourceId,
        resourceArn |-> resource_arn,
        resourceType |-> resource.resourceType,
        name |-> resource.name,
        region |-> resource.region,
        state |-> resource.state,
        accountId |-> account_id,
        lastDiscoveredAt |-> timestamp,
        discoveryStatus |-> "active",
        tags |-> resource.tags,          \* an absent attribute is an empty map
        service |-> resource.service ]

RECURSIVE ItemsToWrite(_, _, _)
ItemsToWrite(resources, account_id, timestamp) ==
  IF resources = <<>> THEN <<>>
  ELSE (IF ValidId(Head(resources))
        THEN <<Item(Head(resources), account_id, timestamp)>> ELSE <<>>)
       \o ItemsToWrite(Tail(resources), account_id, timestamp)

ItemKey(item) == <<item.pk, item.sk>>

RECURSIVE Deduplicate_first(_)
\* a deduplication that keeps the first item of a key
Deduplicate_first(items) ==
  IF items = <<>> THEN <<>>
  ELSE LET n == Len(items)
           init == Deduplicate_first(SubSeq(items, 1, n - 1))
           last == items[n]
       IN  IF \E i \in 1..Len(init) : ItemKey(init[i]) = ItemKey(last)
           THEN init
           ELSE Append(init, last)

RECURSIVE Deduplicate(_)
\* unique_items[key] = item_request: a dict keeps the position of the first
\* insertion of a key and the value of the last
Deduplicate(items) ==
  IF items = <<>> THEN <<>>
  ELSE LET n == Len(items)
           init == Deduplicate(SubSeq(items, 1, n - 1))
           last == items[n]
       IN  IF \E i \in 1..Len(init) : ItemKey(init[i]) = ItemKey(last)
           THEN [i \in 1..Len(init) |->
                   IF ItemKey(init[i]) = ItemKey(last) THEN last ELSE init[i]]
           ELSE Append(init, last)

\* a write that replaces the table by the batch
PutAll_replace(st, items) ==
  [k \in {ItemKey(it) : it \in items} |-> CHOOSE it \in items : ItemKey(it) = k]

\* put of a set of items (keys are distinct inside one batch)
PutAll(st, items) ==
  [k \in DOMAIN st \cup {ItemKey(it) : it \in items} |->
     IF \E it \in items : ItemKey(it) = k
     THEN CHOOSE it \in items : ItemKey(it) = k
     ELSE st[k]]

\* a batch that takes all the items left
Batch_rest == SubSeq(pItems, pI, Len(pItems))

\* batch = items_to_write[i:i + batch_size]
Batch == SubSeq(pItems, pI, Min(pI + batch_size - 1, Len(pItems)))

\* a retry that submits the whole batch again
Requests_batch(unprocessed) == Batch

\* the unprocessed requests of a response, as the request of the retry
Requests(unprocessed) == SelectSeq(pItems, LAMBDA item : item \in unprocessed)

\* one call of batch_write_item: its RequestItems, the time slept before it,
\* and how it ended
BatchCall(items, sleep, raises, unprocessed) ==
  [items |-> items, slept |-> sleep, raised |-> raises, unprocessed |-> unprocessed]

\* the history of one persist call is kept by the specification that studies it
Traced == entry \in {"persist", "end_to_end"}
Logged(call) == pLog' = (IF Traced THEN Append(pLog, call) ELSE pLog)

\* the call process_and_store_resources(account_id, resources)
PersistBegin(account_id, resources) ==
  /\ pAcct' = account_id
  /\ pResources' = (IF Traced THEN resources ELSE <<>>)
  /\ pLog' = <<>>
  /\ pUnproc' = {}
  /\ pRetry' = 0
  /\ pWritten' = 0
  /\ pI' = 1
  /\ IF resources = <<>>
     THEN /\ pItems' = <<>>
          /\ pPc' = "ret"
          /\ clock' = clock
     ELSE /\ pItems' = Deduplicate(ItemsToWrite(resources, account_id, clock))
          /\ pPc' = "batch"
          /\ clock' = clock + 1
  /\ UNCHANGED store

\* a loop that allows one retry more
RetryAgain_more(unprocessed, retry_count) ==
  unprocessed # {} /\ retry_count < max_batch_retries + 1

\* while unprocessed and retry_count < 5
RetryAgain(unprocessed, retry_count) ==
  unprocessed # {} /\ retry_count < max_batch_retries

\* a loop that counts the whole batch, whatever the count
NextBatch_whole(count) ==
  /\ pWritten' = pWritten + Len(Batch)
  /\ pI' = pI + batch_size
  /\ pUnproc' = {}
  /\ pRetry' = 0
  /\ pPc' = "batch"

\* what follows a batch: the next one
NextBatch(count) ==
  /\ pWritten' = pWritten + count
  /\ pI' = pI + batch_size
  /\ pUnproc' = {}
  /\ pRetry' = 0
  /\ pPc' = "batch"

\* an exception that ends the loop over the batches
BatchFailed_abort ==
  /\ pWritten' = pWritten
  /\ pI' = Len(pItems) + 1
  /\ pUnproc' = {}
  /\ pRetry' = 0
  /\ pPc' = "batch"

\* except Exception as e: print(...); the loop goes on with the next batch
BatchFailed == NextBatch(0)

\* batch_write_item of the batch; the table answers with the unprocessed
\* requests, or the call raises
BatchWrite(raises, unprocessed) ==
  /\ pPc = "batch"
  /\ pI <= Len(pItems)
  /\ unprocessed \subseteq SeqToSet(Batch)
  /\ Logged(BatchCall(Batch, 0, raises, unprocessed))
  /\ IF raises
     THEN /\ unprocessed = {}
          /\ BatchFailed
          /\ UNCHANGED store
     ELSE /\ store' = PutAll(store, SeqToSet(Batch) \ unprocessed)
          /\ IF RetryAgain(unprocessed, 0)
             THEN /\ pPc' = "retry"
                  /\ pUnproc' = unprocessed
                  /\ pRetry' = 0
                  /\ UNCHANGED <<pWritten, pI>>
             ELSE NextBatch(Len(Batch))
  /\ UNCHANGED <<clock, calls, pAcct, pResources, pItems, rCall>>

\* while unprocessed and retry_count < 5: sleep, batch_write_item(unprocessed)
BatchRetry(raises, unprocessed) ==
  /\ pPc = "retry"
  /\ unprocessed \subseteq pUnproc
  /\ Logged(BatchCall(Requests(pUnproc), Pow(2, pRetry), raises, unprocessed))
  /\ IF raises
     THEN /\ unprocessed = {}
          /\ BatchFailed
          /\ UNCHANGED store
     ELSE /\ store' = PutAll(store, pUnproc \ unprocessed)
          /\ IF RetryAgain(unprocessed, pRetry + 1)
             THEN /\ pUnproc' = unprocessed
                  /\ pRetry' = pRetry + 1
                  /\ UNCHANGED <<pWritten, pI, pPc>>
             ELSE NextBatch(Len(Batch) - Cardinality(unprocessed))
  /\ UNCHANGED <<clock, calls, pAcct, pResources, pItems, rCall>>

\* return total_written
PersistReturn ==
  /\ pPc = "batch"
  /\ pI > Len(pItems)
  /\ pPc' = "ret"
  /\ UNCHANGED <<store, clock, calls, pAcct, pResources, pItems, pLog, pI, pUnproc, pRetry,
                 pWritten, rCall>>

\* --------------------------------------------------------------- reconcile

\* a reconcile that reads the whole table
existing_resources_scan(st, account_id) ==
  { k \in DOMAIN st :
      /\ Len(k[2]) >= 1 /\ k[2][1] = "INVENTORY#"
      /\ st[k].resourceArn # <<>>
      /\ st[k].discoveryStatus = "active" }

\* a reconcile that keeps the items of the account's query whatever their status
existing_resources_any(st, account_id) ==
  { k \in DOMAIN st :
      /\ k[1] = PK(account_id)
      /\ Len(k[2]) >= 1 /\ k[2][1] = "INVENTORY#"
      /\ st[k].resourceArn # <<>> }

\* the items of the account's query that are kept: arn and status == 'active'
existing_resources(st, account_id) ==
  { k \in DOMAIN st :
      /\ k[1] = PK(account_id)
      /\ Len(k[2]) >= 1 /\ k[2][1] = "INVENTORY#"
      /\ st[k].resourceArn # <<>>
      /\ st[k].discoveryStatus = "active" }

\* a reconcile that marks every active record of the account
ToMark_all(st, account_id, discovered_arns) == existing_resources(st, account_id)

\* the kept items whose ARN is not in discovered_arns
ToMark(st, account_id, discovered_arns) ==
  { k \in existing_resources(st, account_id) : st[k].resourceArn \notin discovered_arns }

\* the call mark_missing_resources(account_id, discovered_arns): the query
\* raises, or every item to mark is updated unless its update_item fails
MarkMissing(account_id, discovered_arns, query_raises, failed) ==
  LET marked == ToMark(store, account_id, discovered_arns)
  IN  /\ failed \subseteq marked
      /\ IF query_raises
         THEN /\ failed = {}
              /\ UNCHANGED <<store, clock>>
              /\ rCall' = [account |-> account_id, arns |-> discovered_arns,
                           raised |-> TRUE, failed |-> {}, count |-> 0, ts |-> clock]
         ELSE /\ store' = [k \in DOMAIN store |->
                             IF k \in marked \ failed
                             THEN [store[k] EXCEPT !.discoveryStatus = "missing",
                                                   !.lastDiscoveredAt = clock]
                             ELSE store[k]]
              /\ clock' = clock + 1
              /\ rCall' = [account |-> account_id, arns |-> discovered_arns,
                           raised |-> FALSE, failed |-> failed,
                           count |-> Cardinality(marked \ failed), ts |-> clock]

\* ------------------------------------------------- the accounts' resources

Account1 == Str("111111111111")
Account2 == Str("222222222222")
AccountIds == {Account1, Account2}

Region1 == Str("us-east-1")
Region2 == Str("eu-west-1")
Region3 == Str("ap-south-1")
AllRegions == <<Region1, Region2, Region3>>

\* service descriptors of a scanfile: two of them share service and function
\* and differ in their parameters
DescVolumes ==
  [ service |-> Str("ec2"), function |-> <<"describe", "_", "volumes">>,
    result_key |-> "Volumes", parameters |-> <<>> ]
DescVolumesFiltered ==
  [ service |-> Str("ec2"), function |-> <<"describe", "_", "volumes">>,
    result_key |-> "Volumes", parameters |-> Str("Filters") ]
DescDbInstances ==
  [ service |-> Str("rds"), function |-> <<"describe", "_", "db", "_", "instances">>,
    result_key |-> "DBInstances", parameters |-> <<>> ]
Descriptors == {DescVolumes, DescVolumesFiltered, DescDbInstances}
\* a descriptor whose listing is a page of three items
DescSubnets ==
  [ service |-> Str("ec2"), function |-> <<"describe", "_", "subnets">>,
    result_key |-> "Subnets", parameters |-> <<>> ]

\* raw API items
Volume(id, state) == [VolumeId |-> Str(id), State |-> Str(state)]
DbInstance(id, region) ==
  [ DBInstanceIdentifier |-> Str(id),
    DBInstanceArn |-> <<"arn:aws:rds:">> \o region \o <<":db:", id>>,
    DBInstanceStatus |-> Str("available") ]
Unrecognized == [Foo |-> Str("bar")]
\* items with two keys of the id list; the second lists the lower-priority
\* key first
ReplicaInstance == [InstanceId |-> Str("i-1"), DBInstanceIdentifier |-> Str("db-1")]
AttachedVolume == [VolumeId |-> Str("vol-1"), InstanceId |-> Str("i-2")]
\* an item with an id and no ARN
Subnet(id) == [SubnetId |-> Str(id), State |-> Str("available")]

\* what the listing of a descriptor returns in a region when it succeeds
Listing(region, desc) ==
  IF desc = DescVolumes THEN <<Volume("vol-1", "in-use")>>
  ELSE IF desc = DescSubnets THEN <<Subnet("subnet-1"), Subnet("subnet-2"), Subnet("subnet-3")>>
  ELSE IF desc = DescVolumesFiltered THEN <<Volume("vol-2", "available")>>
  ELSE <<DbInstance("db-1", region)>>

\* the normalized resources persist is called with by the store driver: a
\* volume in two states (one key), a database instance with its own ARN, and
\* an item no id is found in
StoreResources ==
  { NormalizeItem(item, DescVolumes.service, DescVolumes.function, Region1) :
      item \in {Volume("vol-1", "in-use"), Volume("vol-1", "available"), Unrecognized} }
  \cup { NormalizeItem(DbInstance("db-1", Region1), DescDbInstances.service,
                       DescDbInstances.function, Region1) }

StoreArns(account_id) ==
  { generate_resource_arn(res, account_id) : res \in {x \in StoreResources : ValidId(x)} }

RECURSIVE PutSeq(_, _)
PutSeq(st, items) ==
  IF items = <<>> THEN st ELSE PutSeq(PutAll(st, {Head(items)}), Tail(items))

EmptyStore == <<>>

\* the table after an earlier run that found, at time 0, the volume and the
\* database instance of the first region in both accounts
PriorItems(account_id) ==
  ItemsToWrite(
    normalize_resources(Dicts(Listing(Region1, DescVolumes)),
                        DescVolumes.service, DescVolumes.function, Region1)
    \o normalize_resources(Dicts(Listing(Region1, DescDbInstances)),
                        DescDbInstances.service, DescDbInstances.function, Region1),
    account_id, 0)

PriorStore == PutSeq(PutSeq(EmptyStore, PriorItems(Account1)), PriorItems(Account2))

\* -------------------------------------------------- scan: pure operators

None == [none |-> TRUE]

\* what one (region, descriptor) scan can end with: a non-empty listing, an
\* empty listing, None (retry exhaustion, a missing function, a caught
\* error), or an exception that escapes get_service_data
Outcomes == {"data", "empty", "absent", "raise"}

get_service_data(region, desc, outcome) ==
  IF outcome = "absent" THEN None
  ELSE [ region |-> region,
         service |-> desc.service,
         function |-> desc.function,
         result |-> IF outcome = "data" THEN Listing(region, desc) ELSE <<>> ]

\* the future of a task: its value, or the exception it raised
ServiceFuture(region, desc, outcome) ==
  IF outcome = "raise" THEN [raised |-> TRUE, value |-> None]
  ELSE [raised |-> FALSE, value |-> get_service_data(region, desc, outcome)]

\* a loop that the exception of a future ends with nothing collected
CollectService_discard(results, future) ==
  IF future.raised THEN <<>>
  ELSE IF future.value # None /\ future.value.result # <<>>
       THEN Append(results, future.value)
       ELSE results

\* body of the as_completed loop of process_region
CollectService(results, future) ==
  IF ~future.raised /\ future.value # None /\ future.value.result # <<>>
  THEN Append(results, future.value)
  ELSE results

RECURSIVE CollectServices(_, _, _, _, _)
\* process_region's loop over the futures in the order `order` they complete
CollectServices(results, region, services, outcomes, order) ==
  IF order = <<>> THEN results
  ELSE CollectServices(
         CollectService(results,
                        ServiceFuture(region, services[Head(order)], outcomes[Head(order)])),
         region, services, outcomes, Tail(order))

process_region(region, services, outcomes, order) ==
  CollectServices(<<>>, region, services, outcomes, order)

\* f"{service_result['service']}-{service_result['function']}"
RawKey(service_result) == service_result.service \o <<"-">> \o service_result.function

RECURSIVE AggregateResults(_, _, _)
\* the loop over region_results of run_inventory_scan
AggregateResults(acc, region, results) ==
  IF results = <<>> THEN acc
  ELSE LET sr == Head(results)
       IN  AggregateResults(
             [ all_results |-> acc.all_results
                 \o normalize_resources(Dicts(sr.result), sr.service, sr.function, region),
               raw_results |-> (region :> ((RawKey(sr) :> sr.result) @@ acc.raw_results[region]))
                               @@ acc.raw_results ],
             region, Tail(results))

\* a loop that the exception of a future ends with nothing aggregated
AggregateRegion_discard(acc, region, future) ==
  IF future.raised THEN [all_results |-> <<>>, raw_results |-> <<>>]
  ELSE AggregateResults([acc EXCEPT !.raw_results = (region :> <<>>) @@ @],
                        region, future.value)

\* body of the as_completed loop of run_inventory_scan
AggregateRegion(acc, region, future) ==
  IF future.raised THEN acc
  ELSE AggregateResults([acc EXCEPT !.raw_results = (region :> <<>>) @@ @],
                        region, future.value)

EmptyAggregate == [all_results |-> <<>>, raw_results |-> <<>>]

\* the returned dict of run_inventory_scan
ErrorResult(error) ==
  [ resources |-> <<>>, raw_results |-> <<>>, error |-> error,
    regions_scanned |-> 0, services_scanned |-> 0 ]
ScanResult(acc, regions, services) ==
  [ resources |-> acc.all_results, raw_results |-> acc.raw_results, error |-> "none",
    regions_scanned |-> Len(regions), services_scanned |-> Len(services) ]

\* ------------------------------------------------------- the store driver

NoScan == [auth |-> "none", no_data |-> {}]

\* the invoker of a specification that does not run it
NormOff == nPc = "off" /\ nArgs = <<>> /\ nResources = <<>>
ServiceOff ==
  gPc = "off" /\ gArgs = <<>> /\ gPage = 0 /\ all_items = <<>> /\ gResult = [none |-> TRUE]
DeepOff == dArgs = <<>> /\ dScans = <<>>
ConfigOff == sConfig = <<>>
Running == exit_status = <<>>
OtherOff == ServiceOff /\ DeepOff /\ ConfigOff /\ Running
RetryOff ==
  /\ max_retries = 0 /\ retry_delay = 1 /\ attempt = 0 /\ thrown = <<>> /\ slept = <<>>
  /\ apiPc = "off" /\ apiResult = None

\* the fan-out variables of a specification that does not run them
RegionOff ==
  /\ rRegion = <<>> /\ rServices = <<>> /\ concurrent_services = 1
  /\ svc = <<>> /\ svcFut = <<>> /\ region_results = <<>> /\ rMut = {} /\ rPc = "off"
ScanOff ==
  /\ role_arn = <<>> /\ sRegions = <<>> /\ sServices = <<>> /\ concurrent_regions = 1
  /\ sPc = "off" /\ sAuth = "pending" /\ reg = <<>> /\ regFut = <<>>
  /\ agg = EmptyAggregate /\ sMut = {} /\ svcStarted = 0 /\ result = ErrorResult("none")

NoCall == [account |-> <<>>, arns |-> {}, raised |-> FALSE, failed |-> {}, count |-> 0, ts |-> 0]

InitStore ==
  /\ store \in {EmptyStore, PriorStore}
  /\ clock = 1
  /\ calls = 0
  /\ pPc = "off"
  /\ pAcct = <<>>
  /\ pResources = <<>>
  /\ pItems = <<>>
  /\ pLog = <<>>
  /\ pI = 1
  /\ pUnproc = {}
  /\ pRetry = 0
  /\ pWritten = 0
  /\ rCall = NoCall
  /\ entry = "driver"
  /\ accounts = <<>>
  /\ mIdx = 1
  /\ mPc = "off"
  /\ scan_result = ErrorResult("none")
  /\ total_resources = 0
  /\ successful_accounts = 0
  /\ failed_accounts = 0
  /\ attempts = <<>>
  /\ counted = <<>>
  /\ scanEnv = NoScan
  /\ preStore = EmptyStore
  /\ level = "off"
  /\ RegionOff
  /\ ScanOff
  /\ RetryOff
  /\ NormOff
  /\ OtherOff

\* persist(accountId, resources), called on its own
CallPersist ==
  /\ pPc \in {"off", "ret"}
  /\ calls < MaxCalls
  /\ \E account_id \in AccountIds, resources \in SeqsUpTo(StoreResources, MaxResources) :
       PersistBegin(account_id, resources)
  /\ calls' = calls + 1
  /\ rCall' = NoCall
  /\ UNCHANGED <<runVars, fanoutVars, retryVars, normVars, otherVars>>

PersistStep ==
  /\ \/ \E unprocessed \in SUBSET SeqToSet(pItems) : BatchWrite(FALSE, unprocessed)
     \/ BatchWrite(TRUE, {})
     \/ \E unprocessed \in SUBSET pUnproc : BatchRetry(FALSE, unprocessed)
     \/ BatchRetry(TRUE, {})
     \/ PersistReturn
  /\ UNCHANGED <<runVars, fanoutVars, retryVars, normVars, otherVars>>

\* reconcile(accountId, discoveredArns), called on its own
CallReconcile ==
  /\ pPc \in {"off", "ret"}
  /\ calls < MaxCalls
  /\ \E account_id \in AccountIds :
       \E discovered_arns \in SUBSET StoreArns(account_id) :
         \/ MarkMissing(account_id, discovered_arns, TRUE, {})
         \/ \E failed \in SUBSET ToMark(store, account_id, discovered_arns) :
              MarkMissing(account_id, discovered_arns, FALSE, failed)
  /\ calls' = calls + 1
  /\ UNCHANGED <<pPc, pAcct, pResources, pItems, pLog, pI, pUnproc, pRetry, pWritten>>
  /\ UNCHANGED <<runVars, fanoutVars, retryVars, normVars, otherVars>>

NextStore == CallPersist \/ PersistStep \/ CallReconcile

SpecStore == InitStore /\ [][NextStore]_vars

\* ------------------------------------------------------ one persist call

Digits == <<"0", "1", "2", "3", "4", "5", "6", "7", "8", "9">>

\* the i-th volume of a long listing
NthVolume(i) ==
  [VolumeId |-> <<"vol-", Digits[(i \div 10) + 1], Digits[(i % 10) + 1]>>,
   State |-> Str("in-use")]

\* n distinct volumes, normalized
Volumes(n) ==
  normalize_resources(Dicts([i \in 1..n |-> NthVolume(i)]),
                      DescVolumes.service, DescVolumes.function, Region1)

\* the resources of the call: the short lists of the store driver, one full
\* batch, and the longest list
BatchInputs ==
  SeqsUpTo(StoreResources, MaxResources) \cup {Volumes(batch_size), Volumes(MaxItems)}

\* UnprocessedItems of a response to a request: any part of a short request;
\* nothing, the last item, all but the first item, or everything of a long one
Responses(request) ==
  LET S == SeqToSet(request)
  IN  IF Len(request) <= MaxResources THEN SUBSET S
      ELSE {{}, {request[Len(request)]}, S \ {request[1]}, S}

InitBatch ==
  /\ store = PriorStore
  /\ clock = 1
  /\ calls = 0
  /\ pPc = "off"
  /\ pAcct = <<>>
  /\ pResources = <<>>
  /\ pItems = <<>>
  /\ pLog = <<>>
  /\ pI = 1
  /\ pUnproc = {}
  /\ pRetry = 0
  /\ pWritten = 0
  /\ rCall = NoCall
  /\ entry = "persist"
  /\ accounts = <<>>
  /\ mIdx = 1
  /\ mPc = "off"
  /\ scan_result = ErrorResult("none")
  /\ total_resources = 0
  /\ successful_accounts = 0
  /\ failed_accounts = 0
  /\ attempts = <<>>
  /\ counted = <<>>
  /\ scanEnv = NoScan
  /\ preStore = store
  /\ level = "off"
  /\ RegionOff
  /\ ScanOff
  /\ RetryOff
  /\ NormOff
  /\ OtherOff

\* process_and_store_resources(account_id, resources), called once
TracedPersist ==
  /\ pPc = "off"
  /\ \E account_id \in AccountIds, resources \in BatchInputs :
       PersistBegin(account_id, resources)
  /\ calls' = calls + 1
  /\ rCall' = NoCall
  /\ UNCHANGED <<runVars, fanoutVars, retryVars, normVars, otherVars>>

\* the calls of batch_write_item of that call, and its return
TracedStep ==
  /\ \/ \E unprocessed \in Responses(Batch) : BatchWrite(FALSE, unprocessed)
     \/ BatchWrite(TRUE, {})
     \/ \E unprocessed \in Responses(Requests(pUnproc)) : BatchRetry(FALSE, unprocessed)
     \/ BatchRetry(TRUE, {})
     \/ PersistReturn
  /\ UNCHANGED <<runVars, fanoutVars, retryVars, normVars, otherVars>>

NextBatchCall == TracedPersist \/ TracedStep

SpecBatch == InitBatch /\ [][NextBatchCall]_vars

\* -------------------------------------------------------- the account loop

\* accounts of the registry; main, given ACCOUNT_ID, scans an account that
\* has no role, with the ambient session
AccountA ==
  [ accountId |-> Account1, roleArn |-> Str("arn:aws:iam::111111111111:role/discovery"),
    regions |-> <<Region1, Region2>> ]
AccountB == [accountId |-> Account2, roleArn |-> <<>>, regions |-> <<Region1>>]
AccountNoId == [accountId |-> <<>>, roleArn |-> <<>>, regions |-> <<Region1>>]
Accounts == {AccountA, AccountB, AccountNoId}

\* the descriptors of the scanfile of the run
Scanfile == <<DescVolumes>>

\* what the environment can do during one scan of `account`: the role
\* assumption or the identity check fails, the scan raises (a worker pool of
\* size 0), or every (region, descriptor) scan and region task ends one way
\* and the tasks complete in some order
AuthOutcomes(account) ==
  {"ok", "verify_fails"} \cup (IF account.roleArn # <<>> THEN {"assume_fails"} ELSE {})

ScanEnvs(account) ==
  LET nR == Len(account.regions)
      nS == Len(Scanfile)
  IN  { [auth |-> a, raises |-> FALSE, outcomes |-> <<>>, region_raised |-> {},
         region_order |-> <<>>, service_order |-> <<>>] :
          a \in AuthOutcomes(account) \ {"ok"} }
      \cup { [auth |-> "ok", raises |-> TRUE, outcomes |-> <<>>, region_raised |-> {},
              region_order |-> <<>>, service_order |-> <<>>] }
      \cup { [auth |-> "ok", raises |-> FALSE, outcomes |-> o, region_raised |-> rr,
              region_order |-> ro, service_order |-> so] :
               o \in [1..nR -> [1..nS -> Outcomes]], rr \in SUBSET (1..nR),
               ro \in Perms(1..nR), so \in [1..nR -> Perms(1..nS)] }

\* the future of the region task i under the environment env
RegionFuture(regions, services, env, i) ==
  IF i \in env.region_raised THEN [raised |-> TRUE, value |-> <<>>]
  ELSE [ raised |-> FALSE,
         value |-> process_region(regions[i], services, env.outcomes[i],
                                  env.service_order[i]) ]

RECURSIVE AggregateRegions(_, _, _, _, _)
\* the as_completed loop of run_inventory_scan over the region futures
AggregateRegions(acc, regions, services, env, order) ==
  IF order = <<>> THEN acc
  ELSE AggregateRegions(
         AggregateRegion(acc, regions[Head(order)],
                         RegionFuture(regions, services, env, Head(order))),
         regions, services, env, Tail(order))

\* run_inventory_scan(config, role_arn, ...) under the environment env
run_inventory_scan(regions, services, env) ==
  IF env.auth # "ok" THEN ErrorResult(env.auth)
  ELSE ScanResult(AggregateRegions(EmptyAggregate, regions, services, env, env.region_order),
                  regions, services)

\* what the claims need to know of the environment of a scan
EnvSummary(account, env) ==
  [ auth |-> env.auth,
    no_data |-> IF env.auth # "ok" \/ env.raises THEN {}
                ELSE { <<account.regions[p[1]], Scanfile[p[2]]>> :
                         p \in { q \in (1..Len(account.regions)) \X (1..Len(Scanfile)) :
                                   env.outcomes[q[1]][q[2]] \in {"absent", "raise"} } } ]

Account == accounts[mIdx]

InitRun ==
  /\ store \in {EmptyStore, PriorStore}
  /\ clock = 1
  /\ calls = 0
  /\ pPc = "off"
  /\ pAcct = <<>>
  /\ pResources = <<>>
  /\ pItems = <<>>
  /\ pLog = <<>>
  /\ pI = 1
  /\ pUnproc = {}
  /\ pRetry = 0
  /\ pWritten = 0
  /\ rCall = NoCall
  /\ entry \in {"main", "scan_all_active_accounts"}
  /\ accounts \in SeqsUpTo(Accounts, MaxAccounts)
  /\ mIdx = 1
  /\ mPc = "loop"
  /\ scan_result = ErrorResult("none")
  /\ total_resources = 0
  /\ successful_accounts = 0
  /\ failed_accounts = 0
  /\ attempts = [i \in 1..Len(accounts) |-> 0]
  /\ counted = [i \in 1..Len(accounts) |-> "none"]
  /\ scanEnv = NoScan
  /\ preStore = store
  /\ level = "off"
  /\ RegionOff
  /\ ScanOff
  /\ RetryOff
  /\ NormOff
  /\ OtherOff

\* a loop that a failed account ends
AccountFailed_break ==
  /\ failed_accounts' = failed_accounts + 1
  /\ counted' = [counted EXCEPT ![mIdx] = "failed"]
  /\ mIdx' = Len(accounts) + 1
  /\ mPc' = "loop"
  /\ UNCHANGED <<total_resources, successful_accounts>>

\* except Exception: failed_accounts += 1 (main also writes the sync status
\* 'failed'); the loop goes on with the next account
AccountFailed ==
  /\ failed_accounts' = failed_accounts + 1
  /\ counted' = [counted EXCEPT ![mIdx] = "failed"]
  /\ mIdx' = mIdx + 1
  /\ mPc' = "loop"
  /\ UNCHANGED <<total_resources, successful_accounts>>

\* successful_accounts += 1, total_resources += count
AccountSucceeded ==
  /\ successful_accounts' = successful_accounts + 1
  /\ total_resources' = total_resources + pWritten
  /\ counted' = [counted EXCEPT ![mIdx] = "success"]
  /\ mIdx' = mIdx + 1
  /\ mPc' = "loop"
  /\ UNCHANGED failed_accounts

\* if not account_id: continue
SkipAccount ==
  /\ entry \in {"main", "scan_all_active_accounts"}
  /\ mPc = "loop" /\ mIdx <= Len(accounts)
  /\ Account.accountId = <<>>
  /\ mIdx' = mIdx + 1
  /\ UNCHANGED <<retryVars, normVars, otherVars, fanoutVars>>
  /\ UNCHANGED <<storeVars, entry, accounts, mPc, scan_result, total_resources,
                 successful_accounts, failed_accounts, attempts, counted, scanEnv, preStore>>

\* scan_result = run_inventory_scan(config, role_arn=..., ...)
ScanAccount ==
  /\ entry \in {"main", "scan_all_active_accounts"}
  /\ mPc = "loop" /\ mIdx <= Len(accounts)
  /\ Account.accountId # <<>>
  /\ \E env \in ScanEnvs(Account) :
       /\ attempts' = [attempts EXCEPT ![mIdx] = @ + 1]
       /\ preStore' = store
       /\ IF env.raises
          THEN /\ AccountFailed
               /\ UNCHANGED <<scan_result, scanEnv>>
          ELSE /\ scan_result' = run_inventory_scan(Account.regions, Scanfile, env)
               /\ scanEnv' = EnvSummary(Account, env)
               /\ mPc' = "scanned"
               /\ UNCHANGED <<mIdx, total_resources, successful_accounts,
                              failed_accounts, counted>>
  /\ UNCHANGED <<retryVars, normVars, otherVars, fanoutVars, storeVars, entry, accounts>>

\* process_and_store_resources(account_id=account_id, resources=resources, ...)
PersistAccount ==
  /\ mPc = "scanned"
  /\ PersistBegin(Account.accountId, scan_result.resources)
  /\ mPc' = "persisting"
  /\ UNCHANGED <<retryVars, normVars, otherVars, fanoutVars>>
  /\ UNCHANGED <<calls, rCall, entry, accounts, mIdx, scan_result, total_resources,
                 successful_accounts, failed_accounts, attempts, counted, scanEnv, preStore>>

\* a loop that reconciles as soon as the scan has returned
ReconcileAccount_early ==
  /\ entry = "main"
  /\ mPc = "scanned"
  /\ LET discovered_arns == get_discovered_arns(scan_result.resources, Account.accountId)
     IN  \/ /\ MarkMissing(Account.accountId, discovered_arns, TRUE, {})
            /\ AccountFailed
         \/ /\ \E failed \in SUBSET ToMark(store, Account.accountId, discovered_arns) :
                 MarkMissing(Account.accountId, discovered_arns, FALSE, failed)
            /\ AccountSucceeded
  /\ scan_result' = ErrorResult("none")
  /\ scanEnv' = NoScan
  /\ UNCHANGED preStore
  /\ UNCHANGED <<retryVars, normVars, otherVars, fanoutVars>>
  /\ UNCHANGED <<calls, pPc, pAcct, pResources, pItems, pLog, pI,
                 pUnproc, pRetry, pWritten,
                 entry, accounts, attempts>>

\* main: mark_missing_resources(account_id, get_discovered_arns(resources)),
\* then the account is counted; an exception of the query fails the account
ReconcileAccount ==
  /\ entry = "main"
  /\ mPc = "persisting" /\ pPc = "ret"
  /\ LET discovered_arns == get_discovered_arns(scan_result.resources, Account.accountId)
     IN  \/ /\ MarkMissing(Account.accountId, discovered_arns, TRUE, {})
            /\ AccountFailed
         \/ /\ \E failed \in SUBSET ToMark(store, Account.accountId, discovered_arns) :
                 MarkMissing(Account.accountId, discovered_arns, FALSE, failed)
            /\ AccountSucceeded
  /\ scan_result' = ErrorResult("none")
  /\ scanEnv' = NoScan
  /\ UNCHANGED preStore
  /\ UNCHANGED <<retryVars, normVars, otherVars, fanoutVars>>
  /\ UNCHANGED <<calls, pPc, pAcct, pResources, pItems, pLog, pI,
                 pUnproc, pRetry, pWritten,
                 entry, accounts, attempts>>

\* scan_all_active_accounts: the account is counted once persist has returned
FinishAccount ==
  /\ entry = "scan_all_active_accounts"
  /\ mPc = "persisting" /\ pPc = "ret"
  /\ AccountSucceeded
  /\ scan_result' = ErrorResult("none")
  /\ scanEnv' = NoScan
  /\ preStore' = store
  /\ UNCHANGED <<retryVars, normVars, otherVars, fanoutVars, storeVars, entry, accounts, attempts>>

\* an exit that reports failed accounts in the status
ExitStatus_strict(failed) == IF failed > 0 THEN 1 ELSE 0

\* if failed_accounts > 0: sys.exit(0) else: sys.exit(0)
ExitStatus(failed) == IF failed > 0 THEN 0 ELSE 0

\* the summary after the loop; main then exits (with no account to scan it
\* returns before the loop, and the process ends with status 0)
Summary ==
  /\ mPc = "loop" /\ mIdx > Len(accounts)
  /\ mPc' = "done"
  /\ exit_status' = (IF entry = "main"
                     THEN <<IF accounts = <<>> THEN 0 ELSE ExitStatus(failed_accounts)>>
                     ELSE exit_status)
  /\ UNCHANGED <<retryVars, normVars, fanoutVars, serviceVars, deepVars, sConfig>>
  /\ UNCHANGED <<storeVars, entry, accounts, mIdx, scan_result, total_resources,
                 successful_accounts, failed_accounts, attempts, counted, scanEnv, preStore>>

NextRun ==
  \/ SkipAccount
  \/ ScanAccount
  \/ PersistAccount
  \/ PersistStep
  \/ ReconcileAccount
  \/ FinishAccount
  \/ Summary

SpecRun == InitRun /\ [][NextRun]_vars

\* ------------------------------------------- the account loop of local_runner
\*
\* local_runner.main with --inventory-table: the loop has no try, so an
\* exception ends the run; reconcile runs only for a full scan (--all-accounts
\* and no --regions).

InitLocal ==
  /\ store \in {EmptyStore, PriorStore}
  /\ clock = 1
  /\ calls = 0
  /\ pPc = "off"
  /\ pAcct = <<>>
  /\ pResources = <<>>
  /\ pItems = <<>>
  /\ pLog = <<>>
  /\ pI = 1
  /\ pUnproc = {}
  /\ pRetry = 0
  /\ pWritten = 0
  /\ rCall = NoCall
  /\ entry \in {"local_runner", "local_runner_partial"}
  /\ accounts \in SeqsUpTo({AccountA, AccountB}, MaxAccounts)
  /\ mIdx = 1
  /\ mPc = "loop"
  /\ scan_result = ErrorResult("none")
  /\ total_resources = 0
  /\ successful_accounts = 0
  /\ failed_accounts = 0
  /\ attempts = [i \in 1..Len(accounts) |-> 0]
  /\ counted = [i \in 1..Len(accounts) |-> "none"]
  /\ scanEnv = NoScan
  /\ preStore = store
  /\ level = "off"
  /\ RegionOff
  /\ ScanOff
  /\ RetryOff
  /\ NormOff
  /\ OtherOff

\* result = run_inventory_scan(config, role_arn=role_arn, ...)
LocalScan ==
  /\ entry \in {"local_runner", "local_runner_partial"}
  /\ mPc = "loop" /\ mIdx <= Len(accounts)
  /\ \E env \in ScanEnvs(Account) :
       /\ attempts' = [attempts EXCEPT ![mIdx] = @ + 1]
       /\ preStore' = store
       /\ IF env.raises
          THEN /\ mPc' = "aborted"
               /\ UNCHANGED <<scan_result, scanEnv>>
          ELSE /\ scan_result' = run_inventory_scan(Account.regions, Scanfile, env)
               /\ scanEnv' = EnvSummary(Account, env)
               /\ mPc' = "scanned"
  /\ UNCHANGED <<mIdx, total_resources, successful_accounts, failed_accounts, counted>>
  /\ UNCHANGED <<retryVars, normVars, otherVars, fanoutVars, storeVars, entry, accounts>>

\* if args.all_accounts and not args.regions: mark_missing_resources(...);
\* then the next account
LocalReconcile ==
  /\ entry = "local_runner"
  /\ mPc = "persisting" /\ pPc = "ret"
  /\ LET discovered_arns == get_discovered_arns(scan_result.resources, Account.accountId)
     IN  \/ /\ MarkMissing(Account.accountId, discovered_arns, TRUE, {})
            /\ mPc' = "aborted"
            /\ UNCHANGED mIdx
         \/ /\ \E failed \in SUBSET ToMark(store, Account.accountId, discovered_arns) :
                 MarkMissing(Account.accountId, discovered_arns, FALSE, failed)
            /\ mPc' = "loop"
            /\ mIdx' = mIdx + 1
  /\ scan_result' = ErrorResult("none")
  /\ scanEnv' = NoScan
  /\ UNCHANGED preStore
  /\ UNCHANGED <<calls, pPc, pAcct, pResources, pItems, pLog, pI, pUnproc, pRetry, pWritten>>
  /\ UNCHANGED <<entry, accounts, total_resources, successful_accounts, failed_accounts,
                 attempts, counted>>
  /\ UNCHANGED <<retryVars, normVars, otherVars, fanoutVars>>

\* Skipping 'mark missing' (partial scan or safety check); then the next account
LocalSkipReconcile ==
  /\ entry = "local_runner_partial"
  /\ mPc = "persisting" /\ pPc = "ret"
  /\ mPc' = "loop"
  /\ mIdx' = mIdx + 1
  /\ scan_result' = ErrorResult("none")
  /\ scanEnv' = NoScan
  /\ preStore' = store
  /\ UNCHANGED <<entry, accounts, total_resources, successful_accounts, failed_accounts,
                 attempts, counted>>
  /\ UNCHANGED <<retryVars, normVars, otherVars, fanoutVars, storeVars>>

NextLocal ==
  \/ LocalScan
  \/ PersistAccount
  \/ PersistStep
  \/ LocalReconcile
  \/ LocalSkipReconcile
  \/ Summary

\* the run flow of main, of scan_all_active_accounts and of local_runner
SpecFlow == (InitRun \/ InitLocal) /\ [][NextRun \/ NextLocal]_vars

\* ------------------------------------------- one account, scan then persist

\* the scanfile of the end-to-end run: one service
PageScanfile == <<DescSubnets>>

\* the environments of the scan: the credentials are good, every region
\* returns its page or an empty listing, the region tasks complete in any order
PageEnvs(account) ==
  LET nR == Len(account.regions)
  IN  { [auth |-> "ok", raises |-> FALSE, outcomes |-> o, region_raised |-> {},
         region_order |-> ro, service_order |-> [i \in 1..nR |-> <<1>>]] :
          o \in [1..nR -> [1..1 -> {"data", "empty"}]], ro \in Perms(1..nR) }

InitEndToEnd ==
  /\ store \in {EmptyStore, PriorStore}
  /\ clock = 1
  /\ calls = 0
  /\ pPc = "off"
  /\ pAcct = <<>>
  /\ pResources = <<>>
  /\ pItems = <<>>
  /\ pLog = <<>>
  /\ pI = 1
  /\ pUnproc = {}
  /\ pRetry = 0
  /\ pWritten = 0
  /\ rCall = NoCall
  /\ entry = "end_to_end"
  /\ accounts = <<AccountA>>
  /\ mIdx = 1
  /\ mPc = "loop"
  /\ scan_result = ErrorResult("none")
  /\ total_resources = 0
  /\ successful_accounts = 0
  /\ failed_accounts = 0
  /\ attempts = <<0>>
  /\ counted = <<"none">>
  /\ scanEnv = NoScan
  /\ preStore = store
  /\ level = "off"
  /\ RegionOff
  /\ ScanOff
  /\ RetryOff
  /\ NormOff
  /\ OtherOff

\* scan_result = run_inventory_scan(config, ...) for the account
ScanPages ==
  /\ entry = "end_to_end"
  /\ mPc = "loop" /\ mIdx <= Len(accounts)
  /\ \E env \in PageEnvs(Account) :
       /\ scan_result' = run_inventory_scan(Account.regions, PageScanfile, env)
       /\ scanEnv' = [auth |-> env.auth, no_data |-> {}]
  /\ attempts' = [attempts EXCEPT ![mIdx] = @ + 1]
  /\ mPc' = "scanned"
  /\ UNCHANGED <<mIdx, total_resources, successful_accounts, failed_accounts, counted, preStore>>
  /\ UNCHANGED <<retryVars, normVars, otherVars, fanoutVars, storeVars, entry, accounts>>

NextEndToEnd == ScanPages \/ PersistAccount \/ TracedStep

SpecEndToEnd == InitEndToEnd /\ [][NextEndToEnd]_vars

\* ---------------------------------------------------------- the fan-out
\*
\* The two levels of the fan-out are run one at a time: the service tasks of
\* one call of process_region, and the region tasks of one call of
\* run_inventory_scan, where the body of a region task (a process_region of
\* its own, which shares no mutable state with its siblings) is one step.

NoFuture == [raised |-> FALSE, value |-> None]
\* the same for a region task, whose value is a list
NoRegionFuture == [raised |-> FALSE, value |-> <<>>]

\* occurrences of x in the sequence s
Count(s, x) == Cardinality({k \in 1..Len(s) : s[k] = x})

\* the store and the account loop of a specification that does not run them
StoreOff ==
  /\ store = EmptyStore /\ clock = 1 /\ calls = 0 /\ pPc = "off" /\ pAcct = <<>>
  /\ pResources = <<>> /\ pLog = <<>>
  /\ pItems = <<>> /\ pI = 1 /\ pUnproc = {} /\ pRetry = 0 /\ pWritten = 0 /\ rCall = NoCall
RunOff ==
  /\ entry = "off" /\ accounts = <<>> /\ mIdx = 1 /\ mPc = "off"
  /\ scan_result = ErrorResult("none") /\ total_resources = 0 /\ successful_accounts = 0
  /\ failed_accounts = 0 /\ attempts = <<>> /\ counted = <<>> /\ scanEnv = NoScan
  /\ preStore = EmptyStore

\* the scanfiles of a scan: two descriptors with different keys, and two with
\* the same service and function
ScanServices ==
  { <<DescVolumes, DescDbInstances>>, <<DescVolumes, DescVolumesFiltered>> }

InitRegion ==
  /\ level = "region"
  /\ rRegion = Region1
  /\ rServices \in SeqsUpTo(Descriptors, MaxServices)
  /\ concurrent_services \in 1..MaxServices
  /\ svc = [j \in 1..Len(rServices) |-> "queued"]
  /\ svcFut = [j \in 1..Len(rServices) |-> NoFuture]
  /\ region_results = <<>>
  /\ rMut = {}
  /\ rPc = "collect"
  /\ ScanOff

InitAccount ==
  /\ level = "account"
  /\ role_arn \in {<<>>, AccountA.roleArn}
  /\ sRegions \in {SubSeq(AllRegions, 1, n) : n \in 1..MaxRegions}
  /\ sServices \in ScanServices
  /\ concurrent_regions \in 1..MaxRegions
  /\ sPc = IF role_arn # <<>> THEN "assume" ELSE "verify"
  /\ sAuth = "pending"
  /\ reg = [i \in 1..Len(sRegions) |-> "unsubmitted"]
  /\ regFut = [i \in 1..Len(sRegions) |-> NoRegionFuture]
  /\ agg = EmptyAggregate
  /\ sMut = {}
  /\ svcStarted = 0
  /\ result = ErrorResult("none")
 
  /\ RegionOff

InitScan ==
  /\ StoreOff
  /\ RunOff
  /\ RetryOff
  /\ NormOff
  /\ OtherOff
  /\ InitRegion \/ InitAccount

\* -- the thread pools

\* a pool that starts every task it is given at once
IdleWorker_unbounded(tasks, max_workers) == TRUE

\* ThreadPoolExecutor(max_workers=n): a queued task starts when fewer than n
\* of the pool's tasks are running
IdleWorker(tasks, max_workers) ==
  Cardinality({k \in DOMAIN tasks : tasks[k] = "running"}) < max_workers

\* a loop that is left at the first future it has consumed
Joined_first(tasks, last) == tasks = <<>> \/ \E k \in DOMAIN tasks : tasks[k] = last

\* the as_completed loop has consumed every future, and the exit of the
\* with-block (shutdown(wait=True)) has joined every worker
Joined(tasks, last) == \A k \in DOMAIN tasks : tasks[k] = last

\* -- process_region

\* a worker of the pool takes a queued service task
StartService(j) ==
  /\ level = "region" /\ svc[j] = "queued"
  /\ IdleWorker(svc, concurrent_services)
  /\ svc' = [svc EXCEPT ![j] = "running"]
  /\ UNCHANGED <<storeVars, runVars, retryVars, normVars, otherVars, level, scanVars>>
  /\ UNCHANGED <<rRegion, rServices, concurrent_services, svcFut, region_results, rMut, rPc>>

\* get_service_data returns or raises in its worker
FinishService(j, outcome) ==
  /\ level = "region" /\ svc[j] = "running"
  /\ svc' = [svc EXCEPT ![j] = "done"]
  /\ svcFut' = [svcFut EXCEPT ![j] = ServiceFuture(rRegion, rServices[j], outcome)]
  /\ UNCHANGED <<storeVars, runVars, retryVars, normVars, otherVars, level, scanVars>>
  /\ UNCHANGED <<rRegion, rServices, concurrent_services, region_results, rMut, rPc>>

\* the thread that runs the body of process_region's as_completed loop for
\* the future of task j: the thread that called process_region
Appender(j) == "caller"

\* as_completed yields a completed future; the loop body reads region_results
CollectBegin(j) ==
  /\ level = "region" /\ rPc = "collect" /\ svc[j] = "done"
  /\ \A m \in rMut : m.thread # Appender(j)
  /\ svc' = [svc EXCEPT ![j] = "collecting"]
  /\ rMut' = rMut \cup {[thread |-> Appender(j), task |-> j, seen |-> region_results]}
  /\ UNCHANGED <<storeVars, runVars, retryVars, normVars, otherVars, level, scanVars>>
  /\ UNCHANGED <<rRegion, rServices, concurrent_services, svcFut, region_results, rPc>>

\* ... and writes it
CollectEnd(j) ==
  /\ level = "region" /\ svc[j] = "collecting"
  /\ \E m \in rMut :
       /\ m.task = j
       /\ region_results' = CollectService(m.seen, svcFut[j])
       /\ rMut' = rMut \ {m}
  /\ svc' = [svc EXCEPT ![j] = "collected"]
  /\ UNCHANGED <<storeVars, runVars, retryVars, normVars, otherVars, level, scanVars>>
  /\ UNCHANGED <<rRegion, rServices, concurrent_services, svcFut, rPc>>

\* return region_results
RegionReturn ==
  /\ level = "region" /\ rPc = "collect"
  /\ Joined(svc, "collected")
  /\ rPc' = "returned"
  /\ UNCHANGED <<storeVars, runVars, retryVars, normVars, otherVars, level, scanVars>>
  /\ UNCHANGED <<rRegion, rServices, concurrent_services, svc, svcFut, region_results, rMut>>

\* -- run_inventory_scan

\* an authentication failure that is logged and not returned
AuthFailed_continue(error) ==
  /\ sAuth' = error
  /\ sPc' = "config"
  /\ UNCHANGED result

\* return {'resources': [], 'error': str(e), ...}
AuthFailed(error) ==
  /\ sAuth' = error
  /\ sPc' = "returned"
  /\ result' = ErrorResult(error)

\* session = get_assumed_role_session(role_arn, external_id=external_id)
AssumeRole(ok) ==
  /\ level = "account" /\ sPc = "assume"
  /\ IF ok THEN sPc' = "verify" /\ UNCHANGED <<sAuth, result>>
     ELSE AuthFailed("assume_fails")
  /\ UNCHANGED <<storeVars, runVars, retryVars, normVars, otherVars, level, regionVars>>
  /\ UNCHANGED <<role_arn, sRegions, sServices, concurrent_regions, reg, regFut,
                 agg, sMut, svcStarted>>

\* identity = sts.get_caller_identity()
VerifyCredentials(ok) ==
  /\ level = "account" /\ sPc = "verify"
  /\ IF ok THEN sPc' = "config" /\ sAuth' = "ok" /\ UNCHANGED result
     ELSE AuthFailed("verify_fails")
  /\ UNCHANGED <<storeVars, runVars, retryVars, normVars, otherVars, level, regionVars>>
  /\ UNCHANGED <<role_arn, sRegions, sServices, concurrent_regions, reg, regFut,
                 agg, sMut, svcStarted>>

\* the configuration is read and a process_region task is submitted per region
SubmitRegions ==
  /\ level = "account" /\ sPc = "config"
  /\ reg' = [i \in DOMAIN reg |-> "queued"]
  /\ sPc' = "collect"
  /\ UNCHANGED <<storeVars, runVars, retryVars, normVars, otherVars, level, regionVars>>
  /\ UNCHANGED <<role_arn, sRegions, sServices, concurrent_regions, sAuth, regFut,
                 agg, sMut, svcStarted, result>>

\* a worker of the pool takes a queued region task
StartRegion(i) ==
  /\ level = "account" /\ reg[i] = "queued"
  /\ IdleWorker(reg, concurrent_regions)
  /\ reg' = [reg EXCEPT ![i] = "running"]
  /\ UNCHANGED <<storeVars, runVars, retryVars, normVars, otherVars, level, regionVars>>
  /\ UNCHANGED <<role_arn, sRegions, sServices, concurrent_regions, sPc, sAuth,
                 regFut, agg, sMut, svcStarted, result>>

\* process_region runs in its worker: it raises, or its service scans end
\* with `outcomes` and complete in the order `order`
RunRegion(i, raises, outcomes, order) ==
  /\ level = "account" /\ reg[i] = "running"
  /\ reg' = [reg EXCEPT ![i] = "done"]
  /\ regFut' = [regFut EXCEPT ![i] =
       IF raises THEN [raised |-> TRUE, value |-> <<>>]
       ELSE [raised |-> FALSE,
             value |-> process_region(sRegions[i], sServices, outcomes, order)]]
  /\ svcStarted' = svcStarted + (IF raises THEN 0 ELSE Len(sServices))
  /\ UNCHANGED <<storeVars, runVars, retryVars, normVars, otherVars, level, regionVars>>
  /\ UNCHANGED <<role_arn, sRegions, sServices, concurrent_regions, sPc, sAuth,
                 agg, sMut, result>>

\* the thread that runs the body of run_inventory_scan's as_completed loop
\* for the future of region task i: the thread that called run_inventory_scan
Aggregator_worker(i) == i
Aggregator(i) == "caller"

\* as_completed yields a completed future; the loop body reads all_results
\* and raw_results
AggregateBegin(i) ==
  /\ level = "account" /\ sPc = "collect" /\ reg[i] = "done"
  /\ \A m \in sMut : m.thread # Aggregator(i)
  /\ reg' = [reg EXCEPT ![i] = "aggregating"]
  /\ sMut' = sMut \cup {[thread |-> Aggregator(i), task |-> i, seen |-> agg]}
  /\ UNCHANGED <<storeVars, runVars, retryVars, normVars, otherVars, level, regionVars>>
  /\ UNCHANGED <<role_arn, sRegions, sServices, concurrent_regions, sPc, sAuth,
                 regFut, agg, svcStarted, result>>

\* ... and writes them
AggregateEnd(i) ==
  /\ level = "account" /\ reg[i] = "aggregating"
  /\ \E m \in sMut :
       /\ m.task = i
       /\ agg' = AggregateRegion(m.seen, sRegions[i], regFut[i])
       /\ sMut' = sMut \ {m}
  /\ reg' = [reg EXCEPT ![i] = "aggregated"]
  /\ UNCHANGED <<storeVars, runVars, retryVars, normVars, otherVars, level, regionVars>>
  /\ UNCHANGED <<role_arn, sRegions, sServices, concurrent_regions, sPc, sAuth,
                 regFut, svcStarted, result>>

\* return {'resources': all_results, 'raw_results': raw_results, ...}
ScanReturn ==
  /\ level = "account" /\ sPc = "collect"
  /\ Joined(reg, "aggregated")
  /\ result' = ScanResult(agg, sRegions, sServices)
  /\ sPc' = "returned"
  /\ UNCHANGED <<storeVars, runVars, retryVars, normVars, otherVars, level, regionVars>>
  /\ UNCHANGED <<role_arn, sRegions, sServices, concurrent_regions, sAuth, reg, 
                 regFut, agg, sMut, svcStarted>>

NextScan ==
  \/ \E j \in DOMAIN svc : StartService(j)
  \/ \E j \in DOMAIN svc, outcome \in Outcomes : FinishService(j, outcome)
  \/ \E j \in DOMAIN svc : CollectBegin(j)
  \/ \E j \in DOMAIN svc : CollectEnd(j)
  \/ RegionReturn
  \/ \E ok \in BOOLEAN : AssumeRole(ok)
  \/ \E ok \in BOOLEAN : VerifyCredentials(ok)
  \/ SubmitRegions
  \/ \E i \in DOMAIN reg : StartRegion(i)
  \/ \E i \in DOMAIN reg : RunRegion(i, TRUE, <<>>, <<>>)
  \/ \E i \in DOMAIN reg :
       \E outcomes \in [1..Len(sServices) -> Outcomes], order \in Perms(1..Len(sServices)) :
         RunRegion(i, FALSE, outcomes, order)
  \/ \E i \in DOMAIN reg : AggregateBegin(i)
  \/ \E i \in DOMAIN reg : AggregateEnd(i)
  \/ ScanReturn

SpecScan == InitScan /\ [][NextScan]_vars

\* the fan-out where every remote call eventually returns or raises, the pools
\* run their queued tasks and the calling thread runs its loop
\* (termination does not depend on the payloads: the scanfiles here have no
\* two descriptors of one service and function)
InitScanFair ==
  /\ InitScan
  /\ \A j \in DOMAIN rServices : rServices[j] # DescVolumesFiltered
  /\ \A j \in DOMAIN sServices : sServices[j] # DescVolumesFiltered

SpecScanFair == InitScanFair /\ [][NextScan]_vars /\ WF_vars(NextScan)

\* ---------------------------------------------- the normalizer on its own

\* items of a payload: dicts with an id, with two, without one and empty; strs
\* that are an id, an ARN and empty; values that are neither dict nor str
PayloadItems ==
  { DictItem(Volume("vol-1", "in-use")), DictItem(Unrecognized), DictItem(<<>>),
    DictItem(ReplicaInstance), DictItem(AttachedVolume),
    StrItem(Str("table-1")),
    StrItem(<<"arn:", "aws", ":", "ecs", ":", "us-east-1", ":", "111111111111", ":",
              "cluster", "/", "prod">>),
    StrItem(<<>>),
    OtherItem(TRUE), OtherItem(FALSE) }

\* payloads: lists of items, and items that are not in a list
Payloads == {ListOf(items) : items \in SeqsUpTo(PayloadItems, MaxPayload)} \cup PayloadItems

\* (service, function) pairs: the three verbs as prefix, and a function name
\* ('describe_target_groups') in which a verb's text occurs again
Operations ==
  { <<Str("ec2"), <<"describe", "_", "volumes">>>>,
    <<Str("dynamodb"), <<"list", "_", "tables">>>>,
    <<Str("apigateway"), <<"get", "_", "rest", "_", "apis">>>>,
    <<Str("elbv2"), <<"describe", "_", "tar", "get", "_", "groups">>>> }

InitNormalize ==
  /\ nPc = "call"
  /\ \E raw_data \in Payloads, op \in Operations :
       nArgs = [raw_data |-> raw_data, service |-> op[1], function |-> op[2],
                region |-> Region1]
  /\ nResources = <<>>
  /\ OtherOff
  /\ StoreOff
  /\ RunOff
  /\ level = "off"
  /\ RegionOff
  /\ ScanOff
  /\ RetryOff

\* resources = normalize_resources(raw_data, service, function, region)
Normalize ==
  /\ nPc = "call"
  /\ nResources' = normalize_resources(nArgs.raw_data, nArgs.service, nArgs.function,
                                       nArgs.region)
  /\ nPc' = "returned"
  /\ UNCHANGED <<nArgs, storeVars, runVars, fanoutVars, retryVars, otherVars>>

NextNormalize == Normalize

SpecNormalize == InitNormalize /\ [][NextNormalize]_vars

\* ------------------------------------------------- the retrying invoker

\* what a call of the client function can end with: a response, a
\* botocore ClientError with its error code, a BotoCoreError (the transport
\* errors among them), or any other exception
Response == [ok |-> TRUE]
ClientError(code) == [class |-> "ClientError", code |-> code]
BotoCoreError == [class |-> "BotoCoreError", code |-> ""]
OtherError == [class |-> "Exception", code |-> ""]
ErrorCodes == {"Throttling", "RequestLimitExceeded", "ThrottlingException", "AccessDenied"}
Errors == {ClientError(code) : code \in ErrorCodes} \cup {BotoCoreError, OtherError}

\* an invoker that retries only the ClientError codes
Retried_codes_only(error) ==
  error.class = "ClientError" /\ error.code \in {"Throttling", "RequestLimitExceeded"}

\* an invoker that retries every ClientError
Retried_every_code(error) ==
  error.class \in {"ClientError", "BotoCoreError"}

\* the exceptions api_call catches and goes on after: a ClientError whose
\* code is "Throttling" or "RequestLimitExceeded", and a BotoCoreError
Retried(error) ==
  \/ error.class = "ClientError" /\ error.code \in {"Throttling", "RequestLimitExceeded"}
  \/ error.class = "BotoCoreError"

\* a backoff that grows by the base
sleep_time_linear(delay, n) == delay * n

\* sleep_time = retry_delay ** attempt
sleep_time(delay, n) == Pow(delay, n)

\* a loop with one more turn
InRange_inclusive(n, max) == n <= max

\* for attempt in range(max_retries)
InRange(n, max) == n < max

InitRetry ==
  /\ StoreOff
  /\ NormOff
  /\ OtherOff
  /\ RunOff
  /\ level = "off"
  /\ RegionOff
  /\ ScanOff
  /\ max_retries \in 0..MaxRetries
  /\ retry_delay \in 1..MaxDelay
  /\ attempt = 0
  /\ thrown = <<>>
  /\ slept = <<>>
  /\ apiPc = "loop"
  /\ apiResult = None

\* one turn of the loop: the client function is called and returns
ApiReturns ==
  /\ apiPc = "loop" /\ InRange(attempt, max_retries)
  /\ thrown' = Append(thrown, Response)
  /\ apiPc' = "returned"
  /\ apiResult' = Response
  /\ UNCHANGED <<max_retries, retry_delay, attempt, slept>>
  /\ UNCHANGED <<storeVars, runVars, fanoutVars, normVars, otherVars>>

\* one turn of the loop: the client function is called and raises
ApiRaises(error) ==
  /\ apiPc = "loop" /\ InRange(attempt, max_retries)
  /\ thrown' = Append(thrown, error)
  /\ IF Retried(error)
     THEN /\ slept' = IF attempt < max_retries - 1
                      THEN Append(slept, sleep_time(retry_delay, attempt))
                      ELSE slept
          /\ attempt' = attempt + 1
          /\ UNCHANGED <<apiPc, apiResult>>
     ELSE /\ apiPc' = "raised"
          /\ apiResult' = error
          /\ UNCHANGED <<attempt, slept>>
  /\ UNCHANGED <<max_retries, retry_delay>>
  /\ UNCHANGED <<storeVars, runVars, fanoutVars, normVars, otherVars>>

\* the loop is over: return None
ApiExhausted ==
  /\ apiPc = "loop" /\ ~InRange(attempt, max_retries)
  /\ apiPc' = "returned"
  /\ apiResult' = None
  /\ UNCHANGED <<max_retries, retry_delay, attempt, thrown, slept>>
  /\ UNCHANGED <<storeVars, runVars, fanoutVars, normVars, otherVars>>

NextRetry ==
  \/ ApiReturns
  \/ \E error \in Errors : ApiRaises(error)
  \/ ApiExhausted

SpecRetry == InitRetry /\ [][NextRetry]_vars

\* ------------------------------------- the service scanner, generic path
\*
\* get_service_data for a (service, function) without a deep variant: the
\* loop over the pages of the paginator and, when pagination raises, one call
\* of the retrying invoker (the actions of api_call above).

\* dict without one key: page.pop('ResponseMetadata', None)
Without(d, key) == [k \in DOMAIN d \ {key} |-> d[k]]

\* items = page.get(result_key, []) if result_key else the page without metadata
Extract(page, result_key) ==
  IF result_key # "" THEN Get(page, result_key, ListOf(<<>>))
  ELSE DictItem(Without(page, "ResponseMetadata"))

\* an accumulation that keeps the items in reverse page order
Accumulate_front(items, extracted) ==
  IF extracted.kind = "list" THEN extracted.value \o items ELSE <<extracted>> \o items

\* all_items.extend(items) if isinstance(items, list) else all_items.append(items)
Accumulate(items, extracted) ==
  IF extracted.kind = "list" THEN items \o extracted.value ELSE Append(items, extracted)

\* a fallback that keeps the items of the pages consumed before the raise
SingleResponse_keep(items, raw_response, result_key) ==
  ListOf(Accumulate(items, Extract(raw_response, result_key)))

\* response of the fallback: raw_response.get(result_key, []) if result_key
\* else raw_response without its metadata
SingleResponse(items, raw_response, result_key) == Extract(raw_response, result_key)

\* the dict get_service_data returns
ServiceResult(region, config, response) ==
  [ region |-> region, service |-> config.service, function |-> config.function,
    result |-> response ]

Metadata == DictItem([RequestId |-> Str("r-1")])

\* responses of the client: a list of one item and of two under the key, a dict
\* under the key (a summary map), and a response without the key
ClientPages ==
  { [Volumes |-> ListOf(<<DictItem(Volume("vol-1", "in-use"))>>), ResponseMetadata |-> Metadata],
    [Volumes |-> ListOf(<<DictItem(Volume("vol-2", "available")),
                          DictItem(Volume("vol-3", "in-use"))>>),
     ResponseMetadata |-> Metadata],
    [Volumes |-> DictItem([Count |-> Str("3")]), ResponseMetadata |-> Metadata],
    [ResponseMetadata |-> Metadata] }

\* a service_config with a result_key and the same without
ServiceConfigs == {DescVolumes, [DescVolumes EXCEPT !.result_key = ""]}

\* how the client answers: whether it has the function, the pages the
\* paginator yields, how the iteration ends ("ends", "not_pageable" raised by
\* get_paginator, "error" for any other exception), and what the function
\* returns when it is called
Clients ==
  { [has_function |-> h, pages |-> pages, paginate |-> ends, response |-> response] :
      h \in BOOLEAN, pages \in SeqsUpTo(ClientPages, MaxPages),
      ends \in {"ends", "not_pageable", "error"}, response \in ClientPages }

InitService ==
  /\ gPc = "call"
  /\ \E config \in ServiceConfigs, client \in Clients :
       /\ (client.paginate = "not_pageable" => client.pages = <<>>)
       /\ (~client.has_function => client.pages = <<>> /\ client.paginate = "ends")
       /\ gArgs = [region |-> Region1, service_config |-> config, client |-> client]
  /\ gPage = 0
  /\ all_items = <<>>
  /\ gResult = None
  /\ max_retries \in 1..MaxCallRetries
  /\ retry_delay = 2
  /\ attempt = 0
  /\ thrown = <<>>
  /\ slept = <<>>
  /\ apiPc = "off"
  /\ apiResult = None
  /\ DeepOff /\ ConfigOff /\ Running
  /\ NormOff
  /\ StoreOff
  /\ RunOff
  /\ level = "off"
  /\ RegionOff
  /\ ScanOff

\* client = session.client(...); if not hasattr(client, function_name): return None
GetClient ==
  /\ gPc = "call"
  /\ IF gArgs.client.has_function
     THEN gPc' = "paginate" /\ UNCHANGED gResult
     ELSE gPc' = "returned" /\ gResult' = None
  /\ UNCHANGED <<gArgs, gPage, all_items, deepVars, sConfig, exit_status>>
  /\ UNCHANGED <<storeVars, runVars, fanoutVars, retryVars, normVars>>

\* one turn of the loop over paginator.paginate()
NextPage ==
  /\ gPc = "paginate" /\ gPage < Len(gArgs.client.pages)
  /\ all_items' = Accumulate(all_items, Extract(gArgs.client.pages[gPage + 1],
                                                gArgs.service_config.result_key))
  /\ gPage' = gPage + 1
  /\ UNCHANGED <<gPc, gArgs, gResult, deepVars, sConfig, exit_status>>
  /\ UNCHANGED <<storeVars, runVars, fanoutVars, retryVars, normVars>>

\* the paginator has no more pages: response = all_items, and the return
PaginateEnds ==
  /\ gPc = "paginate" /\ gPage = Len(gArgs.client.pages)
  /\ gArgs.client.paginate = "ends"
  /\ gResult' = ServiceResult(gArgs.region, gArgs.service_config, ListOf(all_items))
  /\ gPc' = "returned"
  /\ UNCHANGED <<gArgs, gPage, all_items, deepVars, sConfig, exit_status>>
  /\ UNCHANGED <<storeVars, runVars, fanoutVars, retryVars, normVars>>

\* get_paginator or the iteration raises (either except clause): api_call()
PaginateRaises ==
  /\ gPc = "paginate" /\ gPage = Len(gArgs.client.pages)
  /\ gArgs.client.paginate # "ends"
  /\ gPc' = "single"
  /\ apiPc' = "loop"
  /\ UNCHANGED <<gArgs, gPage, all_items, gResult, deepVars, sConfig, exit_status>>
  /\ UNCHANGED <<max_retries, retry_delay, attempt, thrown, slept, apiResult>>
  /\ UNCHANGED <<storeVars, runVars, fanoutVars, normVars>>

\* api_call() returned: None gives None, a response gives the result
SingleReturns ==
  /\ gPc = "single" /\ apiPc = "returned"
  /\ gResult' =
       IF apiResult = None THEN None
       ELSE ServiceResult(gArgs.region, gArgs.service_config,
                          SingleResponse(all_items, gArgs.client.response,
                                         gArgs.service_config.result_key))
  /\ gPc' = "returned"
  /\ UNCHANGED <<gArgs, gPage, all_items, deepVars, sConfig, exit_status>>
  /\ UNCHANGED <<storeVars, runVars, fanoutVars, retryVars, normVars>>

\* api_call() raised: the outer except returns None
SingleRaises ==
  /\ gPc = "single" /\ apiPc = "raised"
  /\ gResult' = None
  /\ gPc' = "returned"
  /\ UNCHANGED <<gArgs, gPage, all_items, deepVars, sConfig, exit_status>>
  /\ UNCHANGED <<storeVars, runVars, fanoutVars, retryVars, normVars>>

NextService ==
  \/ GetClient
  \/ NextPage
  \/ PaginateEnds
  \/ PaginateRaises
  \/ ApiReturns
  \/ \E error \in Errors : ApiRaises(error)
  \/ ApiExhausted
  \/ SingleReturns
  \/ SingleRaises

SpecService == InitService /\ [][NextService]_vars

\* ------------------------------------------------------- the deep scans
\*
\* _scan_lambda_deep, _scan_s3_deep and _scan_dynamodb_deep, each called once
\* per region of one account.  A call is one step: the primary listing
\* succeeds or raises (and then no secondary call is made), and every
\* secondary call of every item returns or raises.

\* items of the primary listings
Function(name) ==
  [ FunctionName |-> Str(name),
    FunctionArn |-> <<"arn:aws:lambda:", "function:", name>> ]
\* LocationConstraint is what get_bucket_location answers for the bucket:
\* <<>> (None) for us-east-1, 'EU' for eu-west-1, else the region's name
Bucket(name, location) == [Name |-> Str(name), LocationConstraint |-> location]
Table(name) ==
  [ TableName |-> Str(name), TableArn |-> <<"arn:aws:dynamodb:", "table/", name>> ]

DeepListings ==
  [ lambda |-> <<Function("fn-1"), Function("fn-2"), Function("fn-3")>>,
    s3 |-> << Bucket("b-1", <<>>), Bucket("b-2", Str("EU")), Bucket("b-3", Region3),
              Bucket("b-4", Region2) >>,
    dynamodb |-> <<Str("table-1"), Str("table-2"), Str("table-3")>> ]

\* how the secondary calls for one item can end
SecondaryOutcomes ==
  [ lambda |-> {"ok", "tags_raise"},
    s3 |-> {"ok", "tags_raise", "location_raises", "both_raise"},
    dynamodb |-> {"ok", "describe_raises", "tags_raise"} ]

NameTag == <<[Key |-> Str("Name"), Value |-> Str("prod")]>>

RECURSIVE LambdaFunctions(_, _)
\* the loop over the functions: with its tags, or as listed when list_tags raises
LambdaFunctions(functions, outcomes) ==
  IF functions = <<>> THEN <<>>
  ELSE << IF Head(outcomes) = "ok" THEN [Tags |-> NameTag] @@ Head(functions)
          ELSE Head(functions) >>
       \o LambdaFunctions(Tail(functions), Tail(outcomes))

_scan_lambda_deep(region_name, functions, raises, outcomes) ==
  IF raises THEN None
  ELSE [ region |-> region_name, service |-> Str("lambda"),
         function |-> <<"list", "_", "functions">>,
         result |-> LambdaFunctions(functions, outcomes) ]

\* bucket_region = loc if loc else 'us-east-1'; 'EU' is eu-west-1
BucketRegion(loc) == IF loc = <<>> THEN Region1 ELSE IF loc = Str("EU") THEN Region2 ELSE loc

RECURSIVE AllBuckets(_, _)
\* a loop without the region filter: every bucket the location of which is known
AllBuckets(buckets, outcomes) ==
  IF buckets = <<>> THEN <<>>
  ELSE LET bucket == [Tags |-> IF Head(outcomes) \in {"tags_raise", "both_raise"}
                               THEN <<>> ELSE NameTag] @@ Head(buckets)
       IN  (IF Head(outcomes) \notin {"location_raises", "both_raise"}
            THEN <<bucket>> ELSE <<>>)
           \o AllBuckets(Tail(buckets), Tail(outcomes))

RECURSIVE RegionBuckets(_, _, _)
\* the loop over the buckets: tags ([] when get_bucket_tagging raises), then
\* the bucket is kept when get_bucket_location returns the scanned region
RegionBuckets(region_name, buckets, outcomes) ==
  IF buckets = <<>> THEN <<>>
  ELSE LET bucket == [Tags |-> IF Head(outcomes) \in {"tags_raise", "both_raise"}
                               THEN <<>> ELSE NameTag] @@ Head(buckets)
       IN  (IF /\ Head(outcomes) \notin {"location_raises", "both_raise"}
               /\ BucketRegion(bucket.LocationConstraint) = region_name
            THEN <<bucket>> ELSE <<>>)
           \o RegionBuckets(region_name, Tail(buckets), Tail(outcomes))

\* a deep scan that returns every bucket in every region
_scan_s3_deep_all(region_name, buckets, raises, outcomes) ==
  IF raises THEN None
  ELSE [ region |-> region_name, service |-> Str("s3"),
         function |-> <<"list", "_", "buckets">>,
         result |-> AllBuckets(buckets, outcomes) ]

_scan_s3_deep(region_name, buckets, raises, outcomes) ==
  IF raises THEN None
  ELSE [ region |-> region_name, service |-> Str("s3"),
         function |-> <<"list", "_", "buckets">>,
         result |-> RegionBuckets(region_name, buckets, outcomes) ]

RECURSIVE DescribedTables(_, _)
\* the loop over the table names: describe_table, then list_tags_of_resource;
\* the table is appended when neither raised
DescribedTables(table_names, outcomes) ==
  IF table_names = <<>> THEN <<>>
  ELSE (IF Head(outcomes) = "ok"
        THEN <<[Tags |-> NameTag] @@ Table(Head(table_names)[1])>>
        ELSE <<>>)
       \o DescribedTables(Tail(table_names), Tail(outcomes))

_scan_dynamodb_deep(region_name, table_names, raises, outcomes) ==
  IF raises THEN None
  ELSE [ region |-> region_name, service |-> Str("dynamodb"),
         function |-> <<"list", "_", "tables">>,
         result |-> DescribedTables(table_names, outcomes) ]

\* the regions of the account
DeepRegions == SubSeq(AllRegions, 1, MaxRegions)

InitDeep ==
  /\ \E variant \in DOMAIN DeepListings, n \in 0..MaxListing :
       dArgs = [variant |-> variant, listing |-> SubSeq(DeepListings[variant], 1, n)]
  /\ dScans = <<>>
  /\ ServiceOff /\ ConfigOff /\ Running
  /\ NormOff
  /\ RetryOff
  /\ StoreOff
  /\ RunOff
  /\ level = "off"
  /\ RegionOff
  /\ ScanOff

\* the region scans not made yet, and the ways a scan's calls can end
Unscanned == {DeepRegions[i] : i \in 1..Len(DeepRegions)} \ DOMAIN dScans
DeepOutcomes == [1..Len(dArgs.listing) -> SecondaryOutcomes[dArgs.variant]]
Scanned(region_name, outcomes, returned) ==
  dScans' = (region_name :> [outcomes |-> outcomes, result |-> returned]) @@ dScans

ScanLambdaDeep ==
  /\ dArgs # <<>> /\ dArgs.variant = "lambda"
  /\ \E region_name \in Unscanned, raises \in BOOLEAN, outcomes \in DeepOutcomes :
       Scanned(region_name, IF raises THEN <<>> ELSE outcomes,
               _scan_lambda_deep(region_name, dArgs.listing, raises, outcomes))
  /\ UNCHANGED <<dArgs, serviceVars, sConfig, exit_status>>
  /\ UNCHANGED <<storeVars, runVars, fanoutVars, retryVars, normVars>>

ScanS3Deep ==
  /\ dArgs # <<>> /\ dArgs.variant = "s3"
  /\ \E region_name \in Unscanned, raises \in BOOLEAN, outcomes \in DeepOutcomes :
       Scanned(region_name, IF raises THEN <<>> ELSE outcomes,
               _scan_s3_deep(region_name, dArgs.listing, raises, outcomes))
  /\ UNCHANGED <<dArgs, serviceVars, sConfig, exit_status>>
  /\ UNCHANGED <<storeVars, runVars, fanoutVars, retryVars, normVars>>

ScanDynamodbDeep ==
  /\ dArgs # <<>> /\ dArgs.variant = "dynamodb"
  /\ \E region_name \in Unscanned, raises \in BOOLEAN, outcomes \in DeepOutcomes :
       Scanned(region_name, IF raises THEN <<>> ELSE outcomes,
               _scan_dynamodb_deep(region_name, dArgs.listing, raises, outcomes))
  /\ UNCHANGED <<dArgs, serviceVars, sConfig, exit_status>>
  /\ UNCHANGED <<storeVars, runVars, fanoutVars, retryVars, normVars>>

NextDeep == ScanLambdaDeep \/ ScanS3Deep \/ ScanDynamodbDeep

SpecDeep == InitDeep /\ [][NextDeep]_vars

\* ----------------------------------------------------- region resolution
\*
\* run_inventory_scan from the point where the credentials are verified: the
\* configuration is read, the regions are resolved, and the region tasks run
\* as in the fan-out above (one service, each region task raising or
\* returning its listing).

\* an entry of describe_regions' response
RegionEntry(name, status) == [RegionName |-> Str(name), OptInStatus |-> status]

\* what describe_regions answers: it raises, or a response whose regions
\* have the three opt-in statuses, or no status
RegionLookups ==
  { [raises |-> TRUE, Regions |-> <<>>],
    [raises |-> FALSE, Regions |-> <<>>],
    [raises |-> FALSE,
     Regions |-> << RegionEntry("us-east-1", Str("opt-in-not-required")),
                    RegionEntry("ap-south-1", Str("not-opted-in")),
                    RegionEntry("eu-west-1", Str("opted-in")) >>],
    [raises |-> FALSE,
     Regions |-> << RegionEntry("me-south-1", Str("not-opted-in")),
                    [RegionName |-> Str("eu-west-1")] >>] }

\* the region list of the inventory: strings, or DynamoDB items {'S': region}
ConfiguredRegions ==
  { <<>>, <<StrItem(Region2)>>, <<StrItem(Region2), StrItem(Region1)>>,
    <<DictItem([S |-> Region1]), DictItem([S |-> Region3])>> }

\* the configurations: a dict with an inventory, a plain list of services
\* (no inventories), and a dict without inventories
ScanConfigs ==
  { [kind |-> "inventory", regions |-> regions, lookup |-> lookup] :
      regions \in ConfiguredRegions, lookup \in RegionLookups }
  \cup { [kind |-> kind, regions |-> <<>>, lookup |-> lookup] :
           kind \in {"services", "none"}, lookup \in RegionLookups }

\* a lookup that takes every region of the response
_get_default_regions_all(lookup) ==
  IF lookup.raises
  THEN <<Str("us-east-1"), Str("us-west-2"), Str("eu-west-1"), Str("ap-south-1")>>
  ELSE [i \in 1..Len(lookup.Regions) |-> lookup.Regions[i].RegionName]

\* the regions of the response whose OptInStatus is opt-in-not-required or
\* opted-in; the four common regions when describe_regions raises
_get_default_regions(lookup) ==
  IF lookup.raises
  THEN <<Str("us-east-1"), Str("us-west-2"), Str("eu-west-1"), Str("ap-south-1")>>
  ELSE LET eligible == SelectSeq(lookup.Regions,
                         LAMBDA r : Get(r, "OptInStatus", <<>>)
                                      \in {Str("opt-in-not-required"), Str("opted-in")})
       IN  [i \in 1..Len(eligible) |-> eligible[i].RegionName]

\* [r.get('S', 'us-east-1') for r in regions] when the first item is a dict
\* with 'S'
RegionStrings(regions) ==
  IF regions # <<>> /\ regions[1].kind = "dict" /\ "S" \in DOMAIN regions[1].value
  THEN [i \in 1..Len(regions) |-> Get(regions[i].value, "S", Str("us-east-1"))]
  ELSE [i \in 1..Len(regions) |-> regions[i].value]

\* the regions run_inventory_scan scans
ResolvedRegions(config) ==
  LET regions == IF config.kind = "inventory" THEN RegionStrings(config.regions)
                 ELSE _get_default_regions(config.lookup)
  IN  IF regions = <<>> THEN _get_default_regions(config.lookup) ELSE regions

InitResolve ==
  /\ level = "account"
  /\ sConfig \in ScanConfigs
  /\ role_arn = <<>>
  /\ sRegions = <<>>
  /\ sServices = <<DescVolumes>>
  /\ concurrent_regions \in 1..MaxRegions
  /\ sPc = "resolve"
  /\ sAuth = "ok"
  /\ reg = <<>>
  /\ regFut = <<>>
  /\ agg = EmptyAggregate
  /\ sMut = {}
  /\ svcStarted = 0
  /\ result = ErrorResult("none")
  /\ RegionOff
  /\ ServiceOff /\ DeepOff /\ Running
  /\ NormOff
  /\ RetryOff
  /\ StoreOff
  /\ RunOff

\* the configuration is read and the regions are resolved; a dict without
\* inventories returns the error result
ResolveRegions ==
  /\ level = "account" /\ sPc = "resolve"
  /\ IF sConfig.kind = "none"
     THEN /\ result' = ErrorResult("no_inventories")
          /\ sPc' = "returned"
          /\ UNCHANGED <<sRegions, reg, regFut>>
     ELSE /\ sRegions' = ResolvedRegions(sConfig)
          /\ reg' = [i \in 1..Len(sRegions') |-> "unsubmitted"]
          /\ regFut' = [i \in 1..Len(sRegions') |-> NoRegionFuture]
          /\ sPc' = "config"
          /\ UNCHANGED result
  /\ UNCHANGED <<role_arn, sServices, concurrent_regions, sAuth, agg, sMut, svcStarted>>
  /\ UNCHANGED <<storeVars, runVars, retryVars, normVars, otherVars, level, regionVars>>

NextResolve ==
  \/ ResolveRegions
  \/ SubmitRegions
  \/ \E i \in DOMAIN reg : StartRegion(i)
  \/ \E i \in DOMAIN reg : RunRegion(i, TRUE, <<>>, <<>>)
  \/ \E i \in DOMAIN reg : RunRegion(i, FALSE, <<"data">>, <<1>>)
  \/ \E i \in DOMAIN reg : AggregateBegin(i)
  \/ \E i \in DOMAIN reg : AggregateEnd(i)
  \/ ScanReturn

SpecResolve == InitResolve /\ [][NextResolve]_vars

\* ------------------------------------------------------------------ claims

\* a step that is a call of mark_missing_resources which returned
ReconcileReturned == rCall' # rCall /\ rCall' # NoCall /\ ~rCall'.raised

\* C1: reconcile(accountId, discoveredArns) leaves every record of the account
\* that was active and whose ARN is not in discoveredArns with status missing
\* (unless its update failed), and leaves every record whose ARN is in
\* discoveredArns exactly as it was: status, timestamp and attributes.
C1_Reconcile ==
  [][ ReconcileReturned =>
        /\ DOMAIN store' = DOMAIN store
        /\ \A k \in DOMAIN store :
             /\ ( /\ k[1] = PK(rCall'.account)
                  /\ store[k].discoveryStatus = "active"
                  /\ store[k].resourceArn \notin rCall'.arns
                  /\ k \notin rCall'.failed )
                => store'[k].discoveryStatus = "missing"
             /\ store[k].resourceArn \in rCall'.arns => store'[k] = store[k]
    ]_vars

\* a reconcile has marked a record missing and has left an active record,
\* whose ARN was discovered, in place
C1_Witness ==
  /\ rCall # NoCall /\ ~rCall.raised /\ rCall.count >= 1
  /\ \E k \in DOMAIN store :
       /\ k[1] = PK(rCall.account)
       /\ store[k].resourceArn \in rCall.arns
       /\ store[k].discoveryStatus = "active"
  /\ \E k \in DOMAIN store :
       /\ k[1] = PK(rCall.account)
       /\ store[k].discoveryStatus = "missing"
       /\ store[k].lastDiscoveredAt = rCall.ts

\* the resource of the record rec is in the listing of (region, desc): a scan
\* of the pair that obtains its data rediscovers the record
Rediscovered(rec, region, desc) ==
  \E res \in SeqToSet(normalize_resources(Dicts(Listing(region, desc)), desc.service,
                                          desc.function, region)) :
    /\ ValidId(res)
    /\ res.resourceType = rec.resourceType
    /\ generate_resource_arn(res, rec.accountId) = rec.resourceArn

C4_AuthFailureCountedFailed ==
  [][ \A i \in 1..Len(accounts) :
        (counted[i] # "success" /\ counted'[i] = "success") => scan_result.error = "none"
    ]_vars

\* an account of the list has been attempted: its scan was called, or the
\* loop is past it
Attempted(i) == i < mIdx \/ (i = mIdx /\ mPc \in {"scanned", "persisting"})

\* C6: whatever happened to the accounts before it (an auth failure, an
\* exception), every account of the list with a non-empty id is attempted
\* exactly once: the loop is never stuck before the summary, it reaches the
\* summary only past the last account, and it calls the scan once for each
\* account with an id it has reached and never for another.
C6_EveryAccountAttemptedOnce ==
  /\ \A i \in 1..Len(accounts) :
       attempts[i] = IF Attempted(i) /\ accounts[i].accountId # <<>> THEN 1 ELSE 0
  /\ mPc = "done" => mIdx = Len(accounts) + 1
  /\ mPc # "done" => ENABLED NextRun

\* the run ended, an account failed with an exception and a later account was
\* scanned and counted
C6_Witness ==
  /\ mPc = "done"
  /\ \E i, j \in 1..Len(accounts) :
       i < j /\ counted[i] = "failed" /\ attempts[j] = 1 /\ counted[j] = "success"


\* C5: when the role assumption or the identity check of run_inventory_scan
\* fails, the call returns (it does not raise) an error result whose resource
\* list is empty, and no region task and no service task has been dispatched.
C5_AuthFailureResult ==
  (level = "account" /\ sAuth \in {"assume_fails", "verify_fails"}) =>
    /\ sPc = "returned"
    /\ result.error = sAuth
    /\ result.resources = <<>>
    /\ \A i \in DOMAIN reg : reg[i] = "unsubmitted"
    /\ svcStarted = 0

C5_Witness ==
  /\ level = "account" /\ sPc = "returned"
  /\ sAuth = "verify_fails" /\ role_arn # <<>>
  /\ result.error = "verify_fails"

\* the region tasks of the scan that completed, and those that raised
Completed == {i \in DOMAIN reg : ~regFut[i].raised}
Raised == {i \in DOMAIN reg : regFut[i].raised}

\* the normalized resources of the service results of region task i
RegionResources(i) ==
  Flatten([k \in 1..Len(regFut[i].value) |->
             normalize_resources(Dicts(regFut[i].value[k].result), regFut[i].value[k].service,
                                 regFut[i].value[k].function, sRegions[i])])

ScanReturned == level = "account" /\ sPc = "returned" /\ result.error = "none"

\* C7: the future of a region task that raised is consumed by the loop of
\* run_inventory_scan like any other and the call returns; what it returns
\* holds, for every region whose task completed, the region's entry in
\* the raw results with the key of each of its service results, and each of
\* its normalized resources; a region whose task raised adds nothing.
C7_RegionIsolation ==
  /\ (level = "account" /\ sPc = "collect") =>
       /\ \A i \in Raised :
            /\ (reg[i] = "done" /\ sMut = {}) => ENABLED AggregateBegin(i)
            /\ reg[i] = "aggregating" => ENABLED AggregateEnd(i)
       /\ (\A i \in DOMAIN reg : reg[i] = "aggregated") => ENABLED ScanReturn
  /\ ScanReturned =>
       /\ \A i \in Completed :
            /\ sRegions[i] \in DOMAIN result.raw_results
            /\ \A k \in 1..Len(regFut[i].value) :
                 RawKey(regFut[i].value[k]) \in DOMAIN result.raw_results[sRegions[i]]
            /\ \A x \in SeqToSet(RegionResources(i)) : Count(result.resources, x) >= 1
       /\ \A i \in Raised : sRegions[i] \notin DOMAIN result.raw_results
       /\ \A x \in SeqToSet(result.resources) : \E i \in Completed : x.region = sRegions[i]

C7_Witness ==
  /\ ScanReturned
  /\ \E i, j \in DOMAIN reg :
       /\ i < j /\ regFut[i].raised
       /\ ~regFut[j].raised /\ Len(regFut[j].value) = 2

\* the service tasks whose future holds a non-empty result
Good(j) == ~svcFut[j].raised /\ svcFut[j].value # None /\ svcFut[j].value.result # <<>>

RECURSIVE ExpectedResources(_)
ExpectedResources(i) ==
  IF i = 0 THEN <<>>
  ELSE ExpectedResources(i - 1) \o (IF regFut[i].raised THEN <<>> ELSE RegionResources(i))

\* C9: at most one thread is ever inside a mutation of a result collection;
\* the list process_region returns holds each non-empty service result
\* exactly once, and the list run_inventory_scan returns holds each
\* normalized resource of each completed region exactly once.
C9_SingleWriter ==
  /\ Cardinality(rMut) <= 1
  /\ Cardinality(sMut) <= 1
  /\ (level = "region" /\ rPc = "returned") =>
       \A v \in SeqToSet(region_results) \cup {svcFut[j].value : j \in DOMAIN svc} :
         Count(region_results, v)
           = Cardinality({j \in DOMAIN svc : Good(j) /\ svcFut[j].value = v})
  /\ ScanReturned =>
       \A x \in SeqToSet(result.resources) \cup SeqToSet(ExpectedResources(Len(sRegions))) :
         Count(result.resources, x) = Count(ExpectedResources(Len(sRegions)), x)

C9_Witness ==
  /\ ScanReturned
  /\ concurrent_regions >= 2
  /\ \E i, j \in DOMAIN reg :
       /\ i < j /\ Len(regFut[i].value) = 2 /\ Len(regFut[j].value) = 2
       /\ result.resources = RegionResources(j) \o RegionResources(i)

\* the service scans of region task i that ended with data
WithData(i) ==
  { j \in 1..Len(sServices) :
      get_service_data(sRegions[i], sServices[j], "data") \in SeqToSet(regFut[i].value) }

\* the future of region task i had its service tasks completed in list order
ListOrderFuture(i) ==
  IF regFut[i].raised THEN regFut[i]
  ELSE [ raised |-> FALSE,
         value |-> process_region(sRegions[i], sServices,
                     [j \in 1..Len(sServices) |-> IF j \in WithData(i) THEN "data" ELSE "absent"],
                     [j \in 1..Len(sServices) |-> j]) ]

RECURSIVE ListOrderAggregate(_)
\* the aggregate had the region tasks 1..i completed in list order
ListOrderAggregate(i) ==
  IF i = 0 THEN EmptyAggregate
  ELSE AggregateRegion(ListOrderAggregate(i - 1), sRegions[i], ListOrderFuture(i))

\* C10: for fixed outcomes of the (region, service) scans, the multiset of
\* normalized resources and the region -> "service-operation" -> payload
\* mapping that run_inventory_scan returns are those of the run in which every
\* task completes in list order, whatever the order in which they completed.
C10_OrderIndependent ==
  ScanReturned =>
    LET ref == ListOrderAggregate(Len(sRegions))
    IN  /\ \A x \in SeqToSet(result.resources) \cup SeqToSet(ref.all_results) :
             Count(result.resources, x) = Count(ref.all_results, x)
        /\ result.raw_results = ref.raw_results

\* C11: at every moment at most concurrent_regions region tasks of a scan are
\* running, and at most concurrent_services service scans of a region task.
C11_BoundedFanOut ==
  /\ level = "account" =>
       Cardinality({i \in DOMAIN reg : reg[i] = "running"}) <= concurrent_regions
  /\ level = "region" =>
       Cardinality({j \in DOMAIN svc : svc[j] = "running"}) <= concurrent_services

C11_Witness ==
  /\ level = "region"
  /\ Len(rServices) > concurrent_services
  /\ Cardinality({j \in DOMAIN svc : svc[j] = "running"}) = concurrent_services
  /\ \E j \in DOMAIN svc : svc[j] = "queued"

\* a call of run_inventory_scan past its credential check, or of
\* process_region, that has not returned
Scanning ==
  \/ level = "account" /\ sAuth = "ok" /\ sPc # "returned"
  \/ level = "region" /\ rPc # "returned"

\* C12: once the credentials are verified run_inventory_scan eventually
\* returns, and process_region eventually returns; each returns only when
\* every task it dispatched has finished and its future has been consumed.
C12_RunsToCompletion ==
  /\ [](/\ (level = "account" /\ sPc = "returned" /\ sAuth = "ok") =>
             \A i \in DOMAIN reg : reg[i] = "aggregated"
        /\ (level = "region" /\ rPc = "returned") =>
             \A j \in DOMAIN svc : svc[j] = "collected")
  /\ Scanning ~> ~Scanning

C12_Witness ==
  /\ level = "account" /\ sPc = "returned" /\ sAuth = "ok"
  /\ Len(sRegions) >= 2
  /\ \E i, j \in DOMAIN reg : regFut[i].raised /\ ~regFut[j].raised /\ regFut[j].value # <<>>

\* the errors of the rate-limit class, and the transport errors
RateLimit(e) == e \in {ClientError("Throttling"), ClientError("RequestLimitExceeded")}
Transport(e) == e = BotoCoreError

\* the sleeps of k retries: base^0, ..., base^(k-1)
Backoff(k) == [i \in 1..k |-> Pow(retry_delay, i - 1)]

RECURSIVE SumSeq(_)
SumSeq(q) == IF q = <<>> THEN 0 ELSE Head(q) + SumSeq(Tail(q))

\* the calls made so far that raised
Failures ==
  IF thrown # <<>> /\ thrown[Len(thrown)] = Response
  THEN SubSeq(thrown, 1, Len(thrown) - 1) ELSE thrown

\* C13: a call that raises a throttling error on its first k attempts,
\* k < max_retries, gets its attempt k+1; when that attempt succeeds the
\* invoker has returned its result after exactly k+1 attempts and has slept
\* base^0, ..., base^(k-1) seconds.
C13_RetrySuccess ==
  (\A i \in 1..Len(Failures) : RateLimit(Failures[i])) =>
    LET k == Len(Failures)
    IN  /\ (thrown = Failures /\ k < max_retries) =>
             /\ apiPc = "loop" /\ attempt = k
             /\ ENABLED ApiReturns
        /\ thrown # Failures =>
             /\ k < max_retries
             /\ apiPc = "returned" /\ apiResult = Response
             /\ Len(thrown) = k + 1
             /\ slept = Backoff(k)
             /\ SumSeq(slept) = SumSeq([i \in 1..k |-> Pow(retry_delay, i - 1)])

C13_Witness ==
  /\ max_retries = 3 /\ retry_delay = 2
  /\ thrown = <<ClientError("Throttling"), ClientError("Throttling"), Response>>
  /\ apiPc = "returned" /\ apiResult = Response
  /\ SumSeq(slept) = 3

\* C14: for a call that raises a throttling error on every attempt the
\* invoker makes exactly max_retries attempts, then returns None; it never
\* raises.
C14_RetryExhaustion ==
  (thrown = Failures /\ \A i \in 1..Len(thrown) : RateLimit(thrown[i])) =>
    /\ Len(thrown) <= max_retries
    /\ apiPc # "raised"
    /\ (Len(thrown) = max_retries /\ apiPc = "loop") =>
         ENABLED ApiExhausted /\ ~ENABLED ApiReturns
    /\ apiPc = "returned" => (apiResult = None /\ Len(thrown) = max_retries)

C14_Witness ==
  /\ max_retries = 3
  /\ thrown = <<ClientError("Throttling"), ClientError("RequestLimitExceeded"),
                ClientError("Throttling")>>
  /\ apiPc = "returned" /\ apiResult = None
  /\ Len(slept) = 2

\* the last call made raised e
LastRaised(e) == thrown # <<>> /\ thrown[Len(thrown)] = e

\* C15 as stated: an error that is not of the rate-limit class is raised to
\* the caller by the attempt it occurs in; that attempt does not sleep and is
\* the last.
C15_OtherErrorsPropagate ==
  \A e \in Errors :
    (LastRaised(e) /\ ~RateLimit(e)) =>
      /\ apiPc = "raised" /\ apiResult = e
      /\ Len(slept) = Len(thrown) - 1
      /\ ~ENABLED NextRetry

\* C15 amended: an error that is neither of the rate-limit class nor a
\* BotoCoreError is raised to the caller by the attempt it occurs in; that
\* attempt does not sleep and is the last.
C15_PermanentErrorsPropagate ==
  \A e \in Errors :
    (LastRaised(e) /\ ~RateLimit(e) /\ ~Transport(e)) =>
      /\ apiPc = "raised" /\ apiResult = e
      /\ Len(slept) = Len(thrown) - 1
      /\ ~ENABLED NextRetry

C15_Witness ==
  /\ max_retries = 3
  /\ thrown = <<ClientError("Throttling"), ClientError("AccessDenied")>>
  /\ apiPc = "raised" /\ apiResult = ClientError("AccessDenied")
  /\ Len(slept) = 1

\* C16: a call whose failures are transport errors, alone or mixed with
\* throttling errors, is retried with the sleeps of a call that throttles:
\* base^n after failure n+1, none after failure max_retries; after max_retries
\* failures the invoker returns None; it never raises.
C16_TransportLikeThrottling ==
  (/\ \A i \in 1..Len(Failures) : RateLimit(Failures[i]) \/ Transport(Failures[i])
   /\ \E i \in 1..Len(Failures) : Transport(Failures[i])) =>
    LET k == Len(Failures)
    IN  /\ k <= max_retries
        /\ apiPc # "raised"
        /\ slept = Backoff(IF k < max_retries THEN k ELSE max_retries - 1)
        /\ (thrown = Failures /\ k < max_retries) => (apiPc = "loop" /\ attempt = k)
        /\ (thrown = Failures /\ k = max_retries /\ apiPc = "loop") => ENABLED ApiExhausted
        /\ (thrown = Failures /\ apiPc = "returned") => (apiResult = None /\ k = max_retries)

C16_Witness ==
  /\ max_retries = 3 /\ retry_delay = 2
  /\ thrown = <<BotoCoreError, BotoCoreError, BotoCoreError>>
  /\ apiPc = "returned" /\ apiResult = None
  /\ slept = <<1, 2>>

\* a step that is a call of mark_missing_resources
ReconcileCalled == rCall' # rCall /\ rCall' # NoCall

\* C17: in the run flow mark_missing_resources is called for an account only
\* when process_and_store_resources, called for that account with the
\* resources of the same scan, has returned, and it is given the ARNs of that
\* scan's resources.
C17_ReconcileAfterPersist ==
  [][ ReconcileCalled =>
        /\ mPc = "persisting" /\ pPc = "ret"
        /\ pAcct = Account.accountId
        /\ rCall'.account = Account.accountId
        /\ rCall'.arns = get_discovered_arns(scan_result.resources, Account.accountId)
    ]_vars

C17_Witness ==
  /\ entry \in {"main", "local_runner"}
  /\ rCall # NoCall /\ ~rCall.raised
  /\ rCall.account = pAcct /\ pPc = "ret"
  /\ pWritten >= 1
  /\ \E k \in DOMAIN store :
       k[1] = PK(pAcct) /\ store[k].discoveryStatus = "active" /\ store[k].lastDiscoveredAt >= 1

\* the account a step of persist or of reconcile acts for
Acting == IF ReconcileCalled THEN rCall'.account ELSE pAcct'

\* C18: a step of persist or of reconcile for an account leaves every record
\* of every other account as it was and creates no record of another account,
\* also when the other account holds a record with the same ARN.
C18_AccountFrame ==
  [][ /\ \A k \in DOMAIN store :
           k[1] # PK(Acting) => (k \in DOMAIN store' /\ store'[k] = store[k])
      /\ \A k \in DOMAIN store' \ DOMAIN store : k[1] = PK(Acting)
    ]_vars

C18_Witness ==
  /\ rCall # NoCall /\ ~rCall.raised /\ rCall.account = Account1 /\ rCall.count >= 1
  /\ \E k1, k2 \in DOMAIN store :
       /\ k1[1] = PK(Account1) /\ k2[1] = PK(Account2)
       /\ store[k1].resourceArn = store[k2].resourceArn
       /\ store[k1].resourceArn \notin rCall.arns
       /\ store[k1].discoveryStatus = "missing"
       /\ store[k2].discoveryStatus = "active"

\* C19: no step of persist or of reconcile removes a record key from the
\* store.
C19_NoHardDelete ==
  [][ \A k \in DOMAIN store : k \in DOMAIN store' ]_vars

C19_Witness ==
  /\ calls = MaxCalls
  /\ DOMAIN PriorStore \subseteq DOMAIN store
  /\ \E k \in DOMAIN PriorStore : store[k].discoveryStatus = "missing"
  /\ \E k \in DOMAIN PriorStore :
       store[k].discoveryStatus = "active" /\ store[k].lastDiscoveredAt >= 1

\* the key of the record of a resource of an account
KeyOf(resource, account_id) ==
  <<PK(account_id), SK(resource.resourceType, generate_resource_arn(resource, account_id))>>

\* C20: in the run flow, when persist has returned with every write
\* succeeded, each resource of the scan that has a valid id has its record,
\* active; the reconcile that follows leaves each record the persist wrote
\* active with the time of that persist, also when the record was missing
\* before the scan.
C20_RediscoveryLifecycle ==
  [][ /\ (mPc' = "persisting" /\ pPc' = "ret" /\ pWritten' = Len(pItems')) =>
           \A i \in 1..Len(scan_result'.resources) :
             LET r == scan_result'.resources[i]
                 k == KeyOf(r, pAcct')
             IN  ValidId(r) =>
                   /\ k \in DOMAIN store'
                   /\ store'[k].discoveryStatus = "active"
                   /\ \E j \in 1..Len(pItems') : store'[k] = pItems'[j]
      /\ (ReconcileCalled /\ ~rCall'.raised) =>
           \A j \in 1..Len(pItems) :
             LET k == ItemKey(pItems[j])
             IN  (k \in DOMAIN store /\ store[k] = pItems[j]) =>
                   /\ store'[k].discoveryStatus = "active"
                   /\ store'[k].lastDiscoveredAt = rCall'.ts - 1
                   /\ store'[k] = pItems[j]
    ]_vars

C20_Witness ==
  /\ entry = "main" /\ mPc = "loop"
  /\ rCall # NoCall /\ ~rCall.raised
  /\ \E k \in DOMAIN store \cap DOMAIN preStore :
       /\ k[1] = PK(rCall.account)
       /\ preStore[k].discoveryStatus = "missing"
       /\ store[k].resourceArn \in rCall.arns
       /\ store[k].discoveryStatus = "active"
       /\ store[k].lastDiscoveredAt = rCall.ts - 1
       /\ \E j \in 1..Len(pItems) : store[k] = pItems[j]

\* the positions of the valid resources of the call that have a key
Discovered(key) ==
  { i \in 1..Len(pResources) :
      ValidId(pResources[i]) /\ KeyOf(pResources[i], pAcct) = key }

\* the keys of the valid resources of the call
DiscoveredKeys ==
  { KeyOf(pResources[i], pAcct) : i \in {j \in 1..Len(pResources) : ValidId(pResources[j])} }

\* the first calls of the batches: the ones no sleep precedes
InitialCalls == SelectSeq(pLog, LAMBDA call : call.slept = 0)

\* every call so far returned with nothing unprocessed
NoWriteFailure == \A n \in 1..Len(pLog) : ~pLog[n].raised /\ pLog[n].unprocessed = {}

RECURSIVE Puts(_)
\* the put requests of a sequence of calls, in order
Puts(callSeq) == IF callSeq = <<>> THEN <<>> ELSE Head(callSeq).items \o Puts(Tail(callSeq))

\* C21: for every key (accountId, resourceType, resourceArn) of the discovered
\* list, the items persist is about to write hold exactly one put, carrying the
\* attributes of the last item of the list with that key; the first calls of
\* the batches submit these puts and no other; the returned count counts the
\* key once.
C21_Deduplication ==
  /\ (pPc # "off" /\ pLog = <<>>) =>
       /\ \A key \in DiscoveredKeys :
            LET last == CHOOSE i \in Discovered(key) : \A j \in Discovered(key) : j <= i
                puts == {n \in 1..Len(pItems) : ItemKey(pItems[n]) = key}
            IN  /\ Cardinality(puts) = 1
                /\ \A n \in puts :
                     pItems[n] = Item(pResources[last], pAcct, pItems[n].lastDiscoveredAt)
       /\ \A n \in 1..Len(pItems) : ItemKey(pItems[n]) \in DiscoveredKeys
  /\ pPc = "ret" => Puts(InitialCalls) = pItems
  /\ (pPc = "ret" /\ NoWriteFailure) => pWritten = Cardinality(DiscoveredKeys)

C21_Witness ==
  /\ pPc = "ret" /\ NoWriteFailure
  /\ Len(pResources) = 2
  /\ ValidId(pResources[1]) /\ ValidId(pResources[2])
  /\ KeyOf(pResources[1], pAcct) = KeyOf(pResources[2], pAcct)
  /\ pResources[1].state # pResources[2].state
  /\ Len(pItems) = 1 /\ pItems[1].state = pResources[2].state
  /\ pWritten = 1
  /\ store[ItemKey(pItems[1])].state = pResources[2].state

\* the first calls of the batches that carry an item
BatchesOf(item) ==
  { b \in 1..Len(InitialCalls) :
      \E m \in 1..Len(InitialCalls[b].items) : InitialCalls[b].items[m] = item }

\* C22: the first call of every batch carries at least one and at most 25
\* items, and when persist has returned every deduplicated item was carried by
\* the first call of exactly one batch.
C22_BoundedBatches ==
  /\ \A b \in 1..Len(InitialCalls) :
       /\ Len(InitialCalls[b].items) >= 1
       /\ Len(InitialCalls[b].items) <= 25
  /\ pPc = "ret" =>
       \A n \in 1..Len(pItems) : Cardinality(BatchesOf(pItems[n])) = 1

C22_Witness ==
  /\ pPc = "ret"
  /\ Len(pItems) = MaxItems
  /\ Len(InitialCalls) = 2
  /\ Len(InitialCalls[1].items) = 25
  /\ Len(InitialCalls[2].items) = MaxItems - 25
  /\ BatchesOf(pItems[1]) = {1} /\ BatchesOf(pItems[MaxItems]) = {2}

\* call n of the log is a retry: a sleep precedes it
IsRetry(n) == pLog[n].slept # 0

\* the calls that end the work on a batch
LastCalls == { n \in 1..Len(pLog) : n = Len(pLog) \/ ~IsRetry(n + 1) }

\* the first call of the batch call n belongs to
FirstCall(n) == CHOOSE m \in 1..n : ~IsRetry(m) /\ \A k \in (m + 1)..n : IsRetry(k)

\* what the batch ended by call n adds to total_written
Counted(n) ==
  IF \E k \in FirstCall(n)..n : pLog[k].raised THEN 0
  ELSE Len(pLog[FirstCall(n)].items) - Cardinality(pLog[n].unprocessed)

RECURSIVE SumOver(_)
SumOver(S) == IF S = {} THEN 0 ELSE LET n == CHOOSE x \in S : TRUE
                                    IN  Counted(n) + SumOver(S \ {n})

\* C23: a retry follows exactly a response with unprocessed items that less
\* than five retries precede; it submits exactly the unprocessed items of that
\* response, after a sleep of 1, 2, 4, 8, 16 for the first to the fifth retry
\* of the batch; what is unprocessed after the fifth retry is not submitted
\* again, and the returned count leaves it out.
C23_RetryUnprocessed ==
  /\ \A n \in 2..Len(pLog) :
       LET prev == pLog[n - 1]
       IN  IF ~prev.raised /\ prev.unprocessed # {} /\ prev.slept # 16
           THEN /\ SeqToSet(pLog[n].items) = prev.unprocessed
                /\ Len(pLog[n].items) = Cardinality(prev.unprocessed)
                /\ pLog[n].slept = (IF prev.slept = 0 THEN 1 ELSE 2 * prev.slept)
           ELSE ~IsRetry(n)
  /\ Len(pLog) >= 1 => ~IsRetry(1)
  /\ \A n \in 1..Len(pLog) : pLog[n].slept \in {0, 1, 2, 4, 8, 16}
  /\ pPc = "ret" => pWritten = SumOver(LastCalls)

C23_Witness ==
  /\ pPc = "ret"
  /\ Len(pLog) = 6
  /\ \A n \in 1..6 : ~pLog[n].raised /\ pLog[n].unprocessed # {}
  /\ pLog[1].unprocessed # pLog[6].unprocessed
  /\ pLog[6].slept = 16
  /\ pWritten = Len(pItems) - Cardinality(pLog[6].unprocessed)
  /\ \A item \in pLog[6].unprocessed :
       ItemKey(item) \notin DOMAIN store \/ store[ItemKey(item)] # item

\* the number of retries of the batch call n belongs to, up to call n
RetriesUpTo(n) == n - FirstCall(n)

\* C24 as stated: the unprocessed items of a batch are retried once, and what
\* is unprocessed after that retry is not submitted again.
C24_RetriedOnce ==
  \A n \in 1..Len(pLog) : RetriesUpTo(n) <= 1

\* C24, amended: the unprocessed items of a batch are retried at most five
\* times; the work on a batch ends before the fifth retry only when a call
\* raised or nothing is unprocessed; what is unprocessed after the fifth retry
\* is submitted by no later call.
C24_RetriedUpToFive ==
  /\ \A n \in 1..Len(pLog) : RetriesUpTo(n) <= 5
  /\ \A n \in LastCalls :
       (n < Len(pLog) \/ pPc \in {"batch", "ret"}) =>
         \/ pLog[n].raised
         \/ pLog[n].unprocessed = {}
         \/ /\ RetriesUpTo(n) = 5
            /\ \A k \in (n + 1)..Len(pLog) :
                 \A m \in 1..Len(pLog[k].items) : pLog[k].items[m] \notin pLog[n].unprocessed

C24_Witness ==
  /\ pPc = "ret"
  /\ Len(pLog) = 6
  /\ \A n \in 1..5 : ~pLog[n].raised /\ pLog[n].unprocessed # {}
  /\ RetriesUpTo(6) = 5
  /\ ~pLog[6].raised /\ pLog[6].unprocessed = {}
  /\ pWritten = Len(pItems)
  /\ \A n \in 1..Len(pItems) :
       ItemKey(pItems[n]) \in DOMAIN store /\ store[ItemKey(pItems[n])] = pItems[n]

\* C25: a call of batch_write_item that raises ends only the work on its
\* batch: persist goes on with the batch after it; when persist has returned,
\* the items of every batch were submitted, those after a batch that raised
\* included, and the count is the number of items of the batches that did not
\* raise, less what they left unprocessed.
C25_PartialPersistence ==
  /\ (Len(pLog) >= 1 /\ pLog[Len(pLog)].raised) =>
       /\ pPc \in {"batch", "ret"}
       /\ pI = 25 * Len(InitialCalls) + 1
       /\ pPc = "batch" => (pI <= Len(pItems) \/ ENABLED PersistReturn)
  /\ (pPc = "ret" /\ \E n \in 1..Len(pLog) : pLog[n].raised) =>
       /\ \A m \in 1..Len(pItems) : BatchesOf(pItems[m]) # {}
       /\ 25 * Len(InitialCalls) >= Len(pItems)
       /\ pWritten \in 0..Len(pItems)
       /\ pWritten = SumOver({n \in LastCalls : ~pLog[n].raised})

C25_Witness ==
  /\ pPc = "ret"
  /\ Len(pLog) = 2
  /\ pLog[1].raised /\ Len(pLog[1].items) = 25
  /\ ~pLog[2].raised /\ ~IsRetry(2) /\ pLog[2].unprocessed = {}
  /\ pWritten = Len(pLog[2].items) /\ pWritten >= 1
  /\ ItemKey(pItems[1]) \notin DOMAIN store
  /\ store[ItemKey(pItems[Len(pItems)])] = pItems[Len(pItems)]

\* C26: every item persist builds, and every record of the table, has a
\* non-empty resourceArn, whether the resource it was built from came with an
\* ARN or without one.
C26_ArnNeverEmpty ==
  /\ \A n \in 1..Len(pItems) : pItems[n].resourceArn # <<>>
  /\ \A key \in DOMAIN store : store[key].resourceArn # <<>>
  /\ \A key \in DiscoveredKeys :
       \E n \in 1..Len(pItems) : ItemKey(pItems[n]) = key /\ pItems[n].resourceArn # <<>>

C26_Witness ==
  /\ pPc = "ret" /\ NoWriteFailure
  /\ Len(pResources) = 2
  /\ ValidId(pResources[1]) /\ pResources[1].resourceArn = <<>>
  /\ ValidId(pResources[2]) /\ pResources[2].resourceArn # <<>>
  /\ Len(pItems) = 2
  /\ \A n \in 1..2 : store[ItemKey(pItems[n])] = pItems[n] /\ pItems[n].resourceArn # <<>>
  /\ pItems[2].resourceArn = pResources[2].resourceArn

\* arn:aws:{service}:{region}:{accountId}:{resourceType}/{resourceId}
PseudoArn(resource, account_id) ==
  <<"arn:aws:">> \o resource.service \o <<":">> \o resource.region \o <<":">> \o account_id
    \o <<":">> \o resource.resourceType \o <<"/">> \o resource.resourceId

\* C27: the item persist builds for a resource carries the resource's own ARN
\* when that is non-empty, and otherwise exactly
\* arn:aws:{service}:{region}:{accountId}:{resourceType}/{resourceId} of the
\* resource's fields and the account of the call; the key of the item is
\* built from the same ARN, so equal resources give equal ARNs and keys.
C27_ArnDeterministic ==
  (pPc # "off" /\ pLog = <<>>) =>
    \A i \in 1..Len(pResources) :
      LET r == pResources[i]
          arn == IF r.resourceArn # <<>> THEN r.resourceArn ELSE PseudoArn(r, pAcct)
      IN  ValidId(r) =>
            \E n \in 1..Len(pItems) :
              /\ pItems[n].resourceId = r.resourceId
              /\ pItems[n].resourceType = r.resourceType
              /\ pItems[n].resourceArn = arn
              /\ pItems[n].sk = <<"INVENTORY#">> \o r.resourceType \o <<"#">> \o arn
              /\ \A j \in 1..Len(pResources) :
                   pResources[j] = r => KeyOf(pResources[j], pAcct) = ItemKey(pItems[n])

C27_Witness ==
  /\ pPc = "batch" /\ pLog = <<>> /\ pAcct = Account2
  /\ Len(pItems) = 2
  /\ pResources[1].resourceArn = <<>>
  /\ pItems[1].resourceArn =
       <<"arn:aws:", "ec2", ":", "us-east-1", ":", "222222222222", ":", "ec2", "_", "volumes",
         "/", "vol-1">>
  /\ pResources[2].resourceArn = <<"arn:aws:rds:", "us-east-1", ":db:", "db-1">>
  /\ pItems[2].resourceArn = pResources[2].resourceArn

\* the number of raw items of the pages of a scan result
RECURSIVE RawCount(_, _)
RawCount(raw_results, regions) ==
  IF regions = {} THEN 0
  ELSE LET region == CHOOSE x \in regions : TRUE
           page == raw_results[region]
       IN  (IF DOMAIN page = {} THEN 0
            ELSE Len(page[CHOOSE key \in DOMAIN page : TRUE]))
           + RawCount(raw_results, regions \ {region})

\* the records of the table written by the current persist call
Written == { key \in DOMAIN store : \E n \in 1..Len(pItems) : store[key] = pItems[n] }

\* C28: one account, one service, every region returning a page of three
\* items with ids and no ARNs or nothing: the scan yields one resource per raw
\* item, each without ARN; persist builds one item per resource, with the
\* pseudo-ARN of its region; with no write failure persist reports as many
\* items written as there are resources and the table holds as many records
\* of this call: 6, 6 and 6 when both regions return their page.
C28_EndToEndCount ==
  mPc \in {"scanned", "persisting"} =>
    LET resources == scan_result.resources
        n == RawCount(scan_result.raw_results, DOMAIN scan_result.raw_results)
    IN  /\ Len(resources) = n
        /\ n \in {0, 3, 6}
        /\ (\A i \in 1..Len(Account.regions) :
              /\ Account.regions[i] \in DOMAIN scan_result.raw_results
              /\ DOMAIN scan_result.raw_results[Account.regions[i]] # {}) => n = 6
        /\ \A i \in 1..n : resources[i].resourceArn = <<>> /\ ValidId(resources[i])
        /\ mPc = "persisting" =>
             /\ Len(pItems) = n
             /\ \A i \in 1..n : \E k \in 1..n :
                  pItems[k].resourceArn = PseudoArn(resources[i], Account.accountId)
             /\ (pPc = "ret" /\ NoWriteFailure) =>
                  pWritten = n /\ Cardinality(Written) = n

C28_Witness ==
  /\ mPc = "persisting" /\ pPc = "ret" /\ NoWriteFailure
  /\ Len(Account.regions) = 2
  /\ Len(scan_result.resources) = 6
  /\ \A i \in 1..6 : scan_result.resources[i].resourceArn = <<>>
  /\ pWritten = 6
  /\ Cardinality(Written) = 6
  /\ \E key \in Written :
       store[key].resourceArn =
         <<"arn:aws:", "ec2", ":", "eu-west-1", ":", "111111111111", ":", "ec2", "_", "subnets",
           "/", "subnet-3">>

\* the items of a payload: those of a list, the payload itself otherwise;
\* an empty payload has none
PayloadItemsOf(raw_data) ==
  IF Falsy(raw_data) THEN <<>>
  ELSE IF raw_data.kind = "list" THEN raw_data.value ELSE <<raw_data>>

\* C29: normalize_resources returns one record per item of the payload,
\* in order, whatever the item is; a record of an item without a recognizable
\* id has an empty or 'unknown' id.
C29_NeverDropped ==
  nPc = "returned" =>
    /\ Len(nResources) = Len(PayloadItemsOf(nArgs.raw_data))
    /\ \A i \in 1..Len(nResources) :
         LET item == PayloadItemsOf(nArgs.raw_data)[i]
         IN  /\ item.kind # "other" => nResources[i].rawData = item.value
             /\ (item.kind = "dict" /\ \A key \in DOMAIN item.value : key = "Foo") =>
                  nResources[i].resourceId \in {<<>>, Str("unknown")}

\* (service, function) with the leading describe_, list_ or get_ removed
StripVerb(function) ==
  IF Len(function) >= 2 /\ function[1] \in {"describe", "list", "get"} /\ function[2] = "_"
  THEN SubSeq(function, 3, Len(function))
  ELSE function

\* C30: the resourceType of every resource normalize_resources returns is
\* {service}_{function} with the leading verb prefix of the function removed
\* and nothing else altered.
C30_ResourceType ==
  nPc = "returned" =>
    \A i \in 1..Len(nResources) :
      nResources[i].resourceType = nArgs.service \o <<"_">> \o StripVerb(nArgs.function)

\* the items of a payload the normalizer builds a resource for
KeptItems(raw_data) == SelectSeq(PayloadItemsOf(raw_data), LAMBDA item : item.kind # "other")

RECURSIVE DictOf(_, _)
\* the dict whose keys were inserted in the given order
DictOf(order, values) ==
  IF order = <<>> THEN <<>>
  ELSE DictOf(SubSeq(order, 1, Len(order) - 1), values)
         @@ (order[Len(order)] :> values[order[Len(order)]])

\* positions in the priority list of the keys the object has
PresentIdKeys(object) == {k \in 1..Len(id_keys) : id_keys[k] \in DOMAIN object}

\* C31: the resourceId of a dict item is the value of the first key of the
\* priority list that the item has ('' when it has none), whatever the order
\* of the item's own keys; with InstanceId and DBInstanceIdentifier both
\* present it is the InstanceId value.
C31_KeyPriority ==
  nPc = "returned" =>
    LET kept == KeptItems(nArgs.raw_data)
    IN  /\ Len(nResources) = Len(kept)
        /\ \A i \in 1..Len(kept) :
             kept[i].kind = "dict" =>
               LET object == kept[i].value
                   present == PresentIdKeys(object)
                   first == CHOOSE k \in present : \A j \in present : k <= j
               IN  /\ nResources[i].resourceId =
                        (IF present = {} THEN <<>> ELSE object[id_keys[first]])
                   /\ {"InstanceId", "DBInstanceIdentifier"} \subseteq DOMAIN object =>
                        nResources[i].resourceId = object["InstanceId"]
                   /\ \A order \in Perms(DOMAIN object) :
                        extract_resource_identifiers(DictOf(order, object),
                                                     nArgs.service).resourceId
                          = nResources[i].resourceId

\* a call returned a resource for an item that has InstanceId and a key of
\* lower priority, and for an item that has none of the keys
C31_Witness ==
  /\ nPc = "returned"
  /\ nArgs.raw_data = Dicts(<<AttachedVolume, Unrecognized>>)
  /\ Len(nResources) = 2
  /\ nResources[1].resourceId = Str("i-2")
  /\ nResources[2].resourceId = <<>>

\* a non-list extraction as a single-element sequence, a list as it is
Wrapped(extracted) == IF extracted.kind = "list" THEN extracted.value ELSE <<extracted>>

RECURSIVE FlattenPages(_, _)
\* the extractions of the pages, concatenated in page order
FlattenPages(pages, result_key) ==
  IF pages = <<>> THEN <<>>
  ELSE Wrapped(Extract(Head(pages), result_key)) \o FlattenPages(Tail(pages), result_key)

\* get_service_data took the single-call fallback
FellBack == apiPc # "off"

\* C34: whichever path get_service_data takes (pagination, or the single-call
\* fallback), a result it returns is one sequence: the list-valued extractions
\* of the pages concatenated in page order, a non-list extraction wrapped as a
\* single-element sequence.
C34_OneSequence ==
  (gPc = "returned" /\ gResult # None) =>
    /\ gResult.result.kind = "list"
    /\ gResult.result.value =
         (IF FellBack
          THEN Wrapped(Extract(gArgs.client.response, gArgs.service_config.result_key))
          ELSE FlattenPages(gArgs.client.pages, gArgs.service_config.result_key))

\* C40: when pagination raises, after any number of pages, get_service_data
\* calls the retrying invoker once and returns the extraction of its response
\* alone, with no item of the pages consumed before; it returns None when
\* the invoker returns None (or raises).
C40_FallbackDiscardsPages ==
  /\ (gPc = "returned" /\ gArgs.client.has_function /\ gArgs.client.paginate # "ends")
       => FellBack
  /\ (gPc = "returned" /\ FellBack) =>
       /\ gArgs.client.paginate # "ends"
       /\ gResult =
            (IF apiPc = "returned" /\ apiResult # None
             THEN ServiceResult(gArgs.region, gArgs.service_config,
                                Extract(gArgs.client.response,
                                        gArgs.service_config.result_key))
             ELSE None)
  /\ (gPc = "single" /\ apiPc = "loop") => gResult = None

\* pagination raised after a page with items was consumed, the single call
\* returned at its second attempt, and the result is the single response's list
C40_Witness ==
  /\ gPc = "returned"
  /\ gArgs.client.paginate = "error"
  /\ gPage >= 1
  /\ all_items # <<>>
  /\ Len(thrown) = 2
  /\ apiResult = Response
  /\ gArgs.service_config.result_key = "Volumes"
  /\ gResult.result = ListOf(<<DictItem(Volume("vol-1", "in-use"))>>)
  /\ all_items[1] = DictItem(Volume("vol-2", "available"))

\* the name an item of the primary listing goes by, and the names in a result
ListedName(variant, item) ==
  IF variant = "lambda" THEN item.FunctionName
  ELSE IF variant = "s3" THEN item.Name
  ELSE item
ReturnedNames(variant, returned) ==
  { IF variant = "lambda" THEN returned.result[i].FunctionName
    ELSE IF variant = "s3" THEN returned.result[i].Name
    ELSE returned.result[i].TableName : i \in 1..Len(returned.result) }

\* the region scans of the account whose primary listing succeeded
Listed == {r \in DOMAIN dScans : dScans[r].result # None}

\* C32: in a deep scan, an item one of whose secondary calls raised is still
\* in the returned result (without the enrichment); the only items of the
\* primary listing left out are buckets known to be in another region.
C32_SecondaryFailureKept ==
  \A r \in Listed :
    \A i \in 1..Len(dArgs.listing) :
      dScans[r].outcomes[i] # "ok" =>
        \/ ListedName(dArgs.variant, dArgs.listing[i])
             \in ReturnedNames(dArgs.variant, dScans[r].result)
        \/ /\ dArgs.variant = "s3"
           /\ dScans[r].outcomes[i] = "tags_raise"
           /\ BucketRegion(dArgs.listing[i].LocationConstraint) # r

\* the region scans whose result has the bucket
RegionsOf(bucket) == {r \in Listed : bucket.Name \in ReturnedNames("s3", dScans[r].result)}

\* the region the bucket's location query names
HomeRegion(bucket) ==
  IF bucket.LocationConstraint = <<>> THEN Str("us-east-1")
  ELSE IF bucket.LocationConstraint = Str("EU") THEN Str("eu-west-1")
  ELSE bucket.LocationConstraint

C36_ExitZero ==
  entry = "main" =>
    /\ mPc = "done" => exit_status = <<0>>
    /\ mPc # "done" => exit_status = <<>>

\* a run of main over two accounts ended with one account failed and one
\* succeeded
C36_Witness ==
  /\ entry = "main" /\ mPc = "done"
  /\ Len(accounts) = 2
  /\ failed_accounts = 1 /\ successful_accounts = 1
  /\ exit_status = <<0>>

\* the configured region list, as region names
Configured ==
  [ i \in 1..Len(sConfig.regions) |->
      IF sConfig.regions[i].kind = "dict" THEN sConfig.regions[i].value.S
      ELSE sConfig.regions[i].value ]

\* the enabled regions of the lookup's response, in its order
RECURSIVE EnabledRegions(_)
EnabledRegions(entries) ==
  IF entries = <<>> THEN <<>>
  ELSE (IF /\ "OptInStatus" \in DOMAIN Head(entries)
           /\ \/ Head(entries).OptInStatus = Str("opt-in-not-required")
              \/ Head(entries).OptInStatus = Str("opted-in")
        THEN <<Head(entries).RegionName>> ELSE <<>>)
       \o EnabledRegions(Tail(entries))

\* the hardcoded fallback set
FallbackRegions == <<Str("us-east-1"), Str("us-west-2"), Str("eu-west-1"), Str("ap-south-1")>>

\* the regions of the region tasks that were submitted
TaskRegions == {sRegions[i] : i \in {k \in DOMAIN reg : reg[k] # "unsubmitted"}}

PersistedKeys == {ItemKey(pItems[j]) : j \in 1..Len(pItems)}

\* C37: in the run flow, where reconcile gets the ARN set of the resource
\* list just persisted for the account, the ARN of every item of that persist
\* is in the set, a synthesized one included, and the reconcile turns no
\* active record of that persist to missing.
C37_SameArnDerivation ==
  [][ ( /\ ReconcileCalled
        /\ rCall'.account = pAcct
        /\ rCall'.arns = get_discovered_arns(scan_result.resources, pAcct) ) =>
        /\ \A j \in 1..Len(pItems) : pItems[j].resourceArn \in rCall'.arns
        /\ \A k \in PersistedKeys \cap DOMAIN store :
             store[k].discoveryStatus = "active" => store'[k].discoveryStatus = "active"
    ]_vars

\* a reconcile marked a record of the account missing and left active the
\* record, written by the persist before it, of a volume whose ARN was
\* synthesized
C37_Witness ==
  /\ rCall # NoCall /\ ~rCall.raised /\ rCall.count >= 1
  /\ rCall.account = pAcct /\ pPc = "ret"
  /\ \E k \in PersistedKeys \cap DOMAIN store :
       /\ store[k].resourceArn = <<"arn:aws:">> \o store[k].service \o <<":">>
            \o store[k].region \o <<":">> \o pAcct \o <<":">> \o store[k].resourceType
            \o <<"/">> \o store[k].resourceId
       /\ store[k].resourceArn \in rCall.arns
       /\ store[k].discoveryStatus = "active"
       /\ store[k].lastDiscoveredAt = rCall.ts - 1

\* the step is a reconcile that returns, made right after a reconcile of the
\* same account with the same ARN set whose updates all succeeded
SecondReconcile ==
  /\ ReconcileReturned
  /\ rCall # NoCall /\ ~rCall.raised /\ rCall.failed = {}
  /\ rCall'.account = rCall.account /\ rCall'.arns = rCall.arns

\* C38: a reconcile changes only records that were active, and a reconcile
\* repeated with the same account and ARN set, with no persist in between and
\* after a first call whose updates all succeeded, returns 0 and leaves every
\* record as it was, the timestamp of a missing record included.
C38_ReconcileIdempotent ==
  [][ /\ ReconcileCalled =>
           \A k \in DOMAIN store :
             store'[k] # store[k] => store[k].discoveryStatus = "active"
      /\ SecondReconcile => (rCall'.count = 0 /\ store' = store)
    ]_vars

\* the second of two reconciles returned 0 and the record the first one
\* marked missing still carries the first call's timestamp
C38_Witness ==
  /\ calls = 2 /\ rCall # NoCall /\ ~rCall.raised /\ rCall.count = 0 /\ rCall.ts = 2
  /\ \E k \in DOMAIN store :
       /\ k[1] = PK(rCall.account)
       /\ store[k].resourceArn \notin rCall.arns
       /\ store[k].discoveryStatus = "missing"
       /\ store[k].lastDiscoveredAt = 1

\* the calls of batch_write_item that returned
ReturnedCalls == { n \in 1..Len(pLog) : ~pLog[n].raised }

\* the items the store accepted: submitted by a call that returned and not
\* among its unprocessed items
Accepted == UNION { SeqToSet(pLog[n].items) \ pLog[n].unprocessed : n \in ReturnedCalls }

\* C39: total_written never exceeds the number of items the store accepted;
\* when persist returns it is the sum, over the batches, of the batch size less
\* the items unprocessed after the batch's last call, with nothing for a batch
\* one of whose calls raised, and it equals the number of accepted items when
\* no call raised.
C39_CountWithinAccepted ==
  /\ pWritten <= Cardinality(Accepted)
  /\ pPc = "ret" =>
       /\ pWritten = SumOver(LastCalls)
       /\ ReturnedCalls = 1..Len(pLog) => pWritten = Cardinality(Accepted)

\* persist returned a count below the number of accepted items: the first
\* call of a batch left items unprocessed and accepted the others, its retry
\* raised, and another batch was counted
C39_Witness ==
  /\ pPc = "ret"
  /\ pWritten >= 1
  /\ pWritten < Cardinality(Accepted)
  /\ \E n \in 2..Len(pLog) :
       /\ pLog[n].raised /\ IsRetry(n)
       /\ Counted(n) = 0
       /\ SeqToSet(pLog[n - 1].items) \ pLog[n - 1].unprocessed # {}
====
